---- MODULE Spec2Model ----
(***************************************************************************)
(* Model of the hivemind-devvit quiz server: the key-value store it keeps  *)
(* (report records, replaced list, skip list, quiz cache), the             *)
(* POST /api/report-post handler with incrementReportCount and             *)
(* addPostToReplaced, the GET /api/quiz handler with rotation fallback    *)
(* and replacement substitution, the content filter and ranker of quiz.ts, *)
(* the rotation selector and the admin endpoints.                          *)
(*                                                                         *)
(* Every handler is an async function: the code between two awaits runs    *)
(* atomically on the single JavaScript thread, and every await of a store  *)
(* or content-source call is a point where another request may run.  Each  *)
(* action below is one such atomic segment, ending at the next await.      *)
(***************************************************************************)
EXTENDS Integers, Sequences, FiniteSets, TLC

VARIABLES
    report,      \* store: report:{postId} -> list of reporter ids (key absent = <<>>)
    replaced,    \* store: replaced_posts -> list of post ids
    skip,        \* store: skip_subreddits -> list of subreddit names
    cache,       \* store: quiz:{subreddit}:{date} -> list of questions, or None
    postMeta,    \* store: post_meta:{postId} -> <<[date, subreddit]>>, or <<>>
    today,       \* the current day (its day of the year)
    hist,        \* history: the quizzes served, and the order of writes that
                 \* decides which of two entries of the store expires first
    rc,          \* report calls in flight: slot -> locals of incrementReportCount
    nReports,    \* number of report calls that went on to write (bounded)
    anonDone,    \* history: post id -> number of completed anonymous report calls
    q,           \* quiz requests: slot -> locals and response of GET /api/quiz
    nQuiz,       \* number of quiz requests started (bounded by MaxQuizRequests)
    sel,         \* a call of fetchQuizData or getReplacementQuestion: its locals
    rot,         \* an evaluation of the rotation selector: date, list and results
    adm,         \* an admin request: its parameters and response
    adminSecret, \* the configured ADMIN_SECRET, <<>> when none is configured
    cq,          \* calls of cacheQuiz and getCachedQuiz: the value last written
                 \* per key and the last value returned
    ds,          \* a request of GET /api/daily-subreddit: its postId and response
    dailyPost,   \* store: daily_post:{date} -> post id, or None
    dp,          \* invocations of the scheduled daily-post handler: slot -> locals
    submitted,   \* history: the posts reddit.submitCustomPost has created for
                 \* the handler, with the date and the time of their creation
    nDaily,      \* number of invocations of the handler (bounded)
    now,         \* the clock, in days since the behaviour began
    expiry,      \* store: the expiration set with each quiz and metadata entry
    reporters      \* history: post id -> reporter ids of the completed report
                 \* calls of named reporters

storeVars == <<report, replaced, skip, cache, postMeta, today>>
reportVars == <<rc, nReports, anonDone>>
quizVars == <<q, nQuiz>>
otherVars == <<sel, rot, adm, adminSecret>>
postVars == <<dailyPost, dp, submitted, nDaily>>
moreVars == <<cq, ds, dailyPost, dp, submitted, nDaily, now, expiry, reporters>>

\* what the calls of the cache, of the daily-subreddit endpoint and of the
\* daily-post handler leave alone of moreVars
exceptCq == <<ds, dailyPost, dp, submitted, nDaily, now, reporters>>
exceptDs == <<cq, dailyPost, dp, submitted, nDaily, now, expiry, reporters>>
exceptDp == <<cq, ds, now, reporters>>
exceptReporters == <<cq, ds, dailyPost, dp, submitted, nDaily, now, expiry>>

vars == <<report, replaced, skip, cache, postMeta, today, hist,
          rc, nReports, anonDone, q, nQuiz, sel, rot, adm, adminSecret, cq, ds,
          dailyPost, dp, submitted, nDaily, now, expiry, reporters>>

----------------------------------------------------------------------------
(* Bounds of the model *)

\* number of report calls of one behaviour that write a report record, when
\* the calls overlap
MaxReports == 6

\* the same, when the calls arrive one after another
MaxSeqReports == 5

\* concurrent report requests
ReportSlots == {1, 2}

\* number of quiz requests of one behaviour
MaxQuizRequests == 2

\* the rotation uses the first NumSubreddits entries of APPROVED_SUBREDDITS
NumSubreddits == 3

\* the behaviour's day is one of the days 1..MaxDay of the year
MaxDay == 2

\* concurrent quiz requests
QuizSlots == {1, 2}

----------------------------------------------------------------------------
(* Values *)

\* JavaScript undefined / null
None == "<undefined>"

\* String.prototype.trim on the strings the model feeds in
Trim(s) ==
    CASE s = " a1 " -> "a1"
      [] s = " u1 " -> "u1"
      [] s = "  " -> ""
      [] OTHER -> s

\* id.startsWith('__anon_')
StartsWithAnon(id) == id \in {"__anon_1", "__anon_2", "__anon_x"}

\* `__anon_${Date.now()}_${Math.random().toString(36).slice(2)}`: a string with
\* the prefix; the code reads nothing of it but the prefix
AnonTokens == {"__anon_1"}

Range(seq) == {seq[i] : i \in 1..Len(seq)}

\* Array.prototype.includes
Includes(seq, x) == x \in Range(seq)

\* request bodies of POST /api/report-post
BodyPostIds == {None, "  ", "a1", " a1 ", "a2"}
BodyUserIds == {None, "  ", " u1 ", "u2", "__anon_x"}
ContextUserIds == {None, "u3"}

\* the bodies of anonymous reports
AnonPostIds == {"a1", " a1 ", "a2"}
AnonUserIds == {None, "  "}

REPORT_THRESHOLD == 3

----------------------------------------------------------------------------
(* POST /api/report-post, incrementReportCount, addPostToReplaced *)

IdleCall == [pc |-> "idle", postId |-> "", id |-> "", provided |-> FALSE,
             recorded |-> FALSE, list |-> <<>>, ids |-> <<>>]

\* const reporterId = userId != null && typeof userId === 'string'
\*   ? userId.trim() : context.userId;   then   reporterId || undefined
EndpointReporterId(userId, ctxUser) ==
    LET reporterId == IF userId # None THEN Trim(userId) ELSE ctxUser
    IN  IF reporterId = None \/ reporterId = "" THEN None ELSE reporterId

\* reporterId != null && String(reporterId).trim() !== ''
Provided(reporterId) == reporterId # None /\ Trim(reporterId) # ""

\* the id incrementReportCount stores for the call
ReporterIdOf(reporterId, token) ==
    IF Provided(reporterId) THEN Trim(reporterId) ELSE token

\* variant: the generated ids are deduplicated like the named ones
AlreadyCountedAnyId(list, id) == Includes(list, id)

\* if (id.startsWith('__anon_')) list.push(id)
\* else { if (list.includes(id)) return list.length; list.push(id) }
AlreadyCounted(list, id) == ~StartsWithAnon(id) /\ Includes(list, id)

\* variant: the threshold test is strict
ReachedThresholdStrict(list) == Len(list) > REPORT_THRESHOLD

\* if (list.length >= REPORT_THRESHOLD) await addPostToReplaced(normalized)
ReachedThreshold(list) == Len(list) >= REPORT_THRESHOLD

\* return list.length; res.json({ reported: true, count }): the call ends
Respond(s) ==
    /\ anonDone' = IF rc[s].provided THEN anonDone
                   ELSE [anonDone EXCEPT ![rc[s].postId] = @ + 1]
    /\ reporters' = IF rc[s].provided
                    THEN [reporters EXCEPT ![rc[s].postId] = @ \cup {rc[s].id}]
                    ELSE reporters
    /\ rc' = [rc EXCEPT ![s] = IdleCall]

\* The handler up to its first await that another request can follow: the
\* validation of the body, and incrementReportCount up to and including
\* redis.get(report:{postId}) with the code that follows it up to redis.set.
\* postIds, userIds, ctxUsers and tokens are the inputs the environment draws:
\* body.postId, body.userId, context.userId and the generated anonymous id;
\* limit bounds the number of calls that write.
ReportStart(s, limit, postIds, userIds, ctxUsers, tokens) ==
    /\ rc[s].pc = "idle"
    /\ nReports < limit
    /\ \E postId \in postIds, userId \in userIds, ctxUser \in ctxUsers, token \in tokens :
         IF postId = None \/ Trim(postId) = ""
         THEN \* 400 Post ID is required
              UNCHANGED vars
         ELSE LET reporterId == EndpointReporterId(userId, ctxUser)
                  normalized == Trim(Trim(postId))
                  list == report[normalized]
                  id == ReporterIdOf(reporterId, token)
              IN  /\ IF normalized = ""
                     THEN \* return 0
                          UNCHANGED <<rc, anonDone, nReports, reporters>>
                     ELSE IF AlreadyCounted(list, id)
                     THEN \* return list.length, nothing is written
                          /\ anonDone' = IF Provided(reporterId) THEN anonDone
                                         ELSE [anonDone EXCEPT ![normalized] = @ + 1]
                          /\ reporters' = IF Provided(reporterId)
                                          THEN [reporters EXCEPT ![normalized] = @ \cup {id}]
                                          ELSE reporters
                          /\ UNCHANGED <<rc, nReports>>
                     ELSE /\ nReports' = nReports + 1
                          /\ rc' = [rc EXCEPT ![s] =
                               [pc |-> "set", postId |-> normalized, id |-> id,
                                provided |-> Provided(reporterId),
                                recorded |-> Includes(list, id),
                                list |-> Append(list, id), ids |-> <<>>]]
                          /\ UNCHANGED <<anonDone, reporters>>
                  /\ UNCHANGED <<report, replaced, skip, cache, postMeta, today, hist, q, nQuiz,
                                 otherVars, exceptReporters>>

\* await redis.set(key, JSON.stringify(list)), then the threshold test
ReportSet(s) ==
    /\ rc[s].pc = "set"
    /\ report' = [report EXCEPT ![rc[s].postId] = rc[s].list]
    /\ IF ReachedThreshold(rc[s].list)
       THEN /\ rc' = [rc EXCEPT ![s].pc = "addGet"]
            /\ UNCHANGED <<anonDone, reporters>>
       ELSE Respond(s)
    /\ UNCHANGED <<replaced, nReports>>
    /\ UNCHANGED <<skip, cache, postMeta, today, hist, q, nQuiz, otherVars, exceptReporters>>

\* addPostToReplaced: const ids = await getReplacedPostIds();
\* if (ids.includes(normalized)) return; ids.push(normalized)
AddPostToReplacedGet(s) ==
    /\ rc[s].pc = "addGet"
    /\ LET normalized == Trim(rc[s].postId)
           ids == replaced
       IN  IF normalized = "" \/ Includes(ids, normalized)
           THEN Respond(s)
           ELSE /\ rc' = [rc EXCEPT ![s].pc = "addSet",
                                    ![s].ids = Append(ids, normalized)]
                /\ UNCHANGED <<anonDone, reporters>>
    /\ UNCHANGED <<report, replaced, nReports>>
    /\ UNCHANGED <<skip, cache, postMeta, today, hist, q, nQuiz, otherVars, exceptReporters>>

\* addPostToReplaced: await redis.set(REPLACED_POSTS_KEY, JSON.stringify(ids))
AddPostToReplacedSet(s) ==
    /\ rc[s].pc = "addSet"
    /\ replaced' = rc[s].ids
    /\ Respond(s)
    /\ UNCHANGED <<report, nReports>>
    /\ UNCHANGED <<skip, cache, postMeta, today, hist, q, nQuiz, otherVars, exceptReporters>>

\* report requests arriving one after another: one slot, every input
ReportSeqNext ==
    \/ ReportStart(1, MaxSeqReports, BodyPostIds, BodyUserIds, ContextUserIds, AnonTokens)
    \/ ReportSet(1)
    \/ AddPostToReplacedGet(1)
    \/ AddPostToReplacedSet(1)

\* report requests overlapping: anonymous reports in every slot
ReportNext ==
    \E s \in ReportSlots :
        \/ ReportStart(s, MaxReports, AnonPostIds, AnonUserIds, {None}, {"__anon_1"})
        \/ ReportSet(s)
        \/ AddPostToReplacedGet(s)
        \/ AddPostToReplacedSet(s)


\* number of report calls of one behaviour that write, when named reporters
\* report at the same time
MaxNamedReports == 3

\* the bodies of the reports of the named reporters u1, u2 and, through
\* context.userId, u3
NamedUserIds == {None, " u1 ", "u2"}

\* report requests of named reporters for one post, overlapping
ReportNamedNext ==
    \E s \in ReportSlots :
        \/ ReportStart(s, MaxNamedReports, {"a1"}, NamedUserIds, {"u3"}, AnonTokens)
        \/ ReportSet(s)
        \/ AddPostToReplacedGet(s)
        \/ AddPostToReplacedSet(s)

----------------------------------------------------------------------------
(* Rotation, content source and errors *)

APPROVED_SUBREDDITS ==
    <<"BrandNewSentence", "technicallythetruth", "ihadastroke", "rareinsults",
      "PointlessStories", "FirstWorldProblems", "Unexpected", "CrappyDesign",
      "therewasanattempt">>

\* the approved list of the model
Approved == SubSeq(APPROVED_SUBREDDITS, 1, NumSubreddits)

\* process.env.TEST_SUBREDDIT: not set
TEST_SUBREDDIT == None

\* dayOfYear % APPROVED_SUBREDDITS.length, as a 1-based index
DailyIndex(day) == (day % Len(Approved)) + 1

\* getDailySubreddit(override)
getDailySubreddit(override, day) ==
    IF override # None /\ Includes(Approved, override)
    THEN override
    ELSE Approved[DailyIndex(day)]

\* getSubredditsInRotationOrder(): result[i] = APPROVED[(startIndex + i) % length]
getSubredditsInRotationOrder(day) ==
    LET n == Len(Approved)
        startIndex == (day % n) % n
    IN  [i \in 1..n |-> Approved[((startIndex + (i - 1)) % n) + 1]]

\* subreddits a request may name itself
ExplicitSubreddits == {"funny"}

\* req.query.subreddit and req.query.date
SubredditParams == {None, "", "  "} \cup ExplicitSubreddits
DateParams == {<<>>, <<0>>}

\* a subreddit of the list clearAllQuizCaches deletes the keys of
CommonSubreddits == {"pics"}

Communities == Range(Approved) \cup ExplicitSubreddits \cup CommonSubreddits

\* The posts of a subreddit that pass fetchSubredditPosts' filter and have three
\* comments with a clear winner, in ascending order of getContentLength: the
\* order in which transformToQuizFormat meets them.
FeedOf(c) ==
    CASE c = "BrandNewSentence" -> <<"a1", "a2", "a3", "a4", "a5", "a6", "a7">>
      [] c = "technicallythetruth" -> <<"b1", "b2", "b3", "b4", "b5", "b6", "b7">>
      [] c = "ihadastroke" -> <<"c1", "c2", "c3", "c4", "c5", "c6", "c7">>
      [] c = "rareinsults" -> <<"d1", "d2", "d3", "d4", "d5", "d6", "d7">>
      [] c = "PointlessStories" -> <<"e1", "e2", "e3", "e4", "e5", "e6", "e7">>
      [] c = "funny" -> <<"f1", "f2", "f3", "f4", "f5", "f6", "f7">>
      [] c = "pics" -> <<"g1", "g2", "g3", "g4", "g5", "g6", "g7">>
      [] OTHER -> <<>>

AllPostIds == UNION {Range(FeedOf(c)) : c \in Communities} \cup {"a1", "a2"}

\* Error messages, each as the set of the substrings the handler probes with
\* errorMessage.includes(...) that the message contains.
MsgForbidden == {"403", "Forbidden"}
MsgNotFound == {"not found", "404"}
MsgBanned == {"banned"}
MsgRateLimit == {"rate limit", "429"}
MsgNetwork == {"network", "timeout"}
MsgOther == {}
\* `No posts found in r/${subreddit}. The subreddit may not exist, may be
\* private, or may not have any posts.`
MsgNoPosts == {"private"}
\* `Could not generate quiz questions for r/${subreddit}. ...`
MsgNoQuestions == {"Could not generate quiz questions"}
\* `Could not find 5 qualifying questions for r/${subreddit}. ...`
MsgTooFew == {"Could not find 5 qualifying"}

MsgIncludes(msg, probe) == probe \in msg

\* what reddit.getHotPosts may throw
ApiErrors == {MsgForbidden, MsgNotFound, MsgBanned, MsgRateLimit, MsgNetwork, MsgOther}

\* What the content source answers to one listing of a subreddit's hot posts:
\* an error, or posts of which `ranked` qualify (any: some post passes the
\* post filter).
ContentAnswers(c) ==
    [kind : {"error"}, msg : ApiErrors, any : {FALSE}, ranked : {<<>>}]
    \cup [kind : {"ok"}, msg : {MsgOther}, any : {FALSE}, ranked : {<<>>}]
    \cup [kind : {"ok"}, msg : {MsgOther}, any : {TRUE},
          ranked : {SubSeq(FeedOf(c), 1, n) : n \in {0, 4, 5, 6, 7}}]

QUIZ_SIZE == 5

----------------------------------------------------------------------------
(* GET /api/quiz *)

\* texts of the handler's own messages and suggestions
TextInvalid == "Please select a valid subreddit"
TextNoneAvailable == "No subreddits available in rotation"
TextAllFailed == "Couldn't load a quiz from any subreddit in the rotation"
TextNotEnough == "Couldn't find enough quiz questions"
TextFailed == "Failed to load quiz"
TryLater == "Please try again later"
TryInAMoment == "Please try again in a moment"
TryDifferent == "Try selecting a different subreddit"

NoResponse == [status |-> 0, type |-> "", retryable |-> FALSE,
               message |-> {}, suggestion |-> "",
               quiz |-> <<>>, subreddit |-> None]

IdleQuiz == [pc |-> "idle", postId |-> None, subreddit |-> None,
             rotation |-> FALSE, date |-> <<>>, order |-> <<>>,
             i |-> 0, candidates |-> <<>>, k |-> 0, path |-> "",
             quizData |-> <<>>, quizOut |-> <<>>, replacedIds |-> <<>>, j |-> 0,
             list |-> <<>>, resp |-> NoResponse,
             \* history of the request: the skip list at its start, the
             \* candidates looked up, those with a cached quiz or a fetch of
             \* five questions, those given up, the positions left without
             \* replacement, the questions substituted, and whether a
             \* replacement lookup threw; whether the post's metadata gave
             \* subreddit and date, the candidates the content source was
             \* asked for, the outcome of the last fetchQuizData, and
             \* whether a store read or skip-list write, or the cache
             \* write, failed
             skip0 |-> <<>>, tried |-> <<>>, yielded |-> <<>>, failed |-> <<>>,
             noRepl |-> {}, subs |-> <<>>, replThrew |-> FALSE,
             resolved |-> FALSE, fetched |-> {}, fetchKind |-> "",
             storeFailed |-> FALSE, writeFailed |-> FALSE]

\* getDailyCacheKey(subreddit, date): `quiz:${subreddit}:${date || today}`
getDailyCacheKey(subreddit, date) ==
    <<subreddit, IF date = <<>> THEN today ELSE date[1]>>

CacheKeys == Communities \X ({0} \cup (1..MaxDay))

\* res.json({ quiz: quizOut, ...(usingDailySubreddit && { subreddit: candidate }) })
SuccessResponse(rec) ==
    [status |-> 200, type |-> "", retryable |-> FALSE,
     message |-> {}, suggestion |-> "", quiz |-> rec.quizOut,
     subreddit |-> IF rec.rotation THEN rec.candidates[rec.k] ELSE None]

\* 503: every candidate failed
UnavailableResponse ==
    [status |-> 503, type |-> "UNKNOWN_ERROR", retryable |-> TRUE,
     message |-> {TextAllFailed}, suggestion |-> TryInAMoment,
     quiz |-> <<>>, subreddit |-> None]

\* 503: no candidate
NoCandidateResponse ==
    [UnavailableResponse EXCEPT !.message = {TextNoneAvailable}]

\* 400: Please select a valid subreddit
InvalidResponse ==
    [status |-> 400, type |-> "INSUFFICIENT_DATA", retryable |-> FALSE,
     message |-> {TextInvalid}, suggestion |-> "",
     quiz |-> <<>>, subreddit |-> None]

\* 404 of the quizData.length === 0 branch
InsufficientResponse ==
    [status |-> 404, type |-> "INSUFFICIENT_DATA", retryable |-> TRUE,
     message |-> {TextNotEnough}, suggestion |-> TryDifferent,
     quiz |-> <<>>, subreddit |-> None]

\* the outer catch: 500 Failed to load quiz
UnexpectedResponse ==
    [status |-> 500, type |-> "UNKNOWN_ERROR", retryable |-> TRUE,
     message |-> {TextFailed}, suggestion |-> TryInAMoment,
     quiz |-> <<>>, subreddit |-> None]

\* A rejection outside the handler's try block is handled by nobody: the
\* request gets no response from the handler (status 0), or the framework's
\* own error page.
UnhandledOutcomes ==
    {[NoResponse EXCEPT !.type = "UNHANDLED"],
     [NoResponse EXCEPT !.type = "UNHANDLED", !.status = 500]}

\* what a failing redis call throws
StoreErrors == {MsgOther, MsgNetwork}

\* const isUnavailable = errorMessage.includes('not found') || ...
IsUnavailable(msg) ==
    \/ MsgIncludes(msg, "not found")
    \/ MsgIncludes(msg, "does not exist")
    \/ MsgIncludes(msg, "404")
    \/ MsgIncludes(msg, "403")
    \/ MsgIncludes(msg, "Forbidden")
    \/ MsgIncludes(msg, "banned")
    \/ MsgIncludes(msg, "private")
    \/ MsgIncludes(msg, "restricted")
    \/ MsgIncludes(msg, "Could not find 5 qualifying")
    \/ MsgIncludes(msg, "Could not generate quiz questions")

\* the chain that sets errorType
ErrorTypeOf(msg) ==
    IF \/ MsgIncludes(msg, "not found")
       \/ MsgIncludes(msg, "does not exist")
       \/ MsgIncludes(msg, "404")
    THEN "SUBREDDIT_NOT_FOUND"
    ELSE IF MsgIncludes(msg, "rate limit") \/ MsgIncludes(msg, "429")
    THEN "RATE_LIMIT"
    ELSE IF \/ MsgIncludes(msg, "network")
            \/ MsgIncludes(msg, "fetch")
            \/ MsgIncludes(msg, "timeout")
    THEN "NETWORK_ERROR"
    ELSE IF MsgIncludes(msg, "403") \/ MsgIncludes(msg, "Forbidden")
    THEN "API_ERROR"
    ELSE "UNKNOWN_ERROR"

\* the error response of the inner catch
FetchErrorResponse(msg) ==
    LET errorType == ErrorTypeOf(msg)
    IN  [status |-> IF errorType = "SUBREDDIT_NOT_FOUND" THEN 404
                    ELSE IF errorType = "RATE_LIMIT" THEN 429 ELSE 500,
         type |-> errorType,
         retryable |-> errorType \in {"RATE_LIMIT", "NETWORK_ERROR"},
         message |-> msg,
         suggestion |-> IF errorType = "SUBREDDIT_NOT_FOUND" THEN "check the name"
                        ELSE IF errorType = "RATE_LIMIT" THEN "wait a moment"
                        ELSE IF errorType = "NETWORK_ERROR" THEN "check your connection"
                        ELSE IF errorType = "API_ERROR" THEN "may be private or restricted"
                        ELSE TryLater,
         quiz |-> <<>>, subreddit |-> None]

Responded(rec, resp) == [rec EXCEPT !.pc = "done", !.resp = resp]

\* variant: after the last candidate the request ends in the outer catch
ContinueUnexpected(rec) ==
    LET r == [rec EXCEPT !.failed = Append(@, rec.candidates[rec.k])]
    IN  IF rec.k < Len(rec.candidates)
        THEN [r EXCEPT !.pc = "cache", !.k = rec.k + 1]
        ELSE Responded(r, UnexpectedResponse)

\* `continue`: the next candidate, or after the last one the 503 that follows
\* the loop
Continue(rec) ==
    LET r == [rec EXCEPT !.failed = Append(@, rec.candidates[rec.k])]
    IN  IF rec.k < Len(rec.candidates)
        THEN [r EXCEPT !.pc = "cache", !.k = rec.k + 1]
        ELSE Responded(r, UnavailableResponse)

\* variant: an unavailable subreddit is skipped in explicit mode too
HandleFetchErrorAnyMode(rec, msg) ==
    IF IsUnavailable(msg)
    THEN [rec EXCEPT !.pc = "skipGet"]
    ELSE Responded(rec, FetchErrorResponse(msg))

\* catch (fetchError): skip the candidate and go on, or answer with the error
HandleFetchError(rec, msg) ==
    IF rec.rotation /\ IsUnavailable(msg)
    THEN [rec EXCEPT !.pc = "skipGet"]
    ELSE Responded(rec, FetchErrorResponse(msg))

\* variant: no question is taken as flagged
NextFlaggedNone(quizOut, replacedIds, from) == 0

\* the least index >= from of a question whose post is in replacedIds, or 0
NextFlagged(quizOut, replacedIds, from) ==
    LET hits == {i \in from..Len(quizOut) : Includes(replacedIds, quizOut[i])}
    IN  IF hits = {} THEN 0 ELSE CHOOSE i \in hits : \A h \in hits : i <= h

\* the substitution loop from index `from` up to its next await, or to the
\* response after it
SubstitutionLoop(rec, from) ==
    LET j == NextFlagged(rec.quizOut, rec.replacedIds, from)
    IN  IF j = 0
        THEN Responded(rec, SuccessResponse(rec))
        ELSE [rec EXCEPT !.pc = "subst", !.j = j]

\* variant: fewer than five questions are returned as they are
fetchQuizDataAnyLength(answer) ==
    IF answer.kind = "error" THEN [ok |-> FALSE, msg |-> answer.msg, quiz |-> <<>>]
    ELSE IF ~answer.any THEN [ok |-> FALSE, msg |-> MsgNoPosts, quiz |-> <<>>]
    ELSE [ok |-> TRUE, msg |-> MsgOther,
          quiz |-> SubSeq(answer.ranked, 1,
                          IF Len(answer.ranked) < QUIZ_SIZE THEN Len(answer.ranked)
                          ELSE QUIZ_SIZE)]

\* fetchQuizData: the five questions, or the message of the error thrown
fetchQuizData(answer) ==
    IF answer.kind = "error" THEN [ok |-> FALSE, msg |-> answer.msg, quiz |-> <<>>]
    ELSE IF ~answer.any THEN [ok |-> FALSE, msg |-> MsgNoPosts, quiz |-> <<>>]
    ELSE LET quizQuestions ==
                 SubSeq(answer.ranked, 1,
                        IF Len(answer.ranked) < QUIZ_SIZE THEN Len(answer.ranked)
                        ELSE QUIZ_SIZE)
         IN  IF Len(quizQuestions) < QUIZ_SIZE
             THEN [ok |-> FALSE,
                   msg |-> IF Len(quizQuestions) = 0 THEN MsgNoQuestions ELSE MsgTooFew,
                   quiz |-> <<>>]
             ELSE [ok |-> TRUE, msg |-> MsgOther, quiz |-> quizQuestions]

\* variant: the excluded post ids are not filtered out
getReplacementQuestionUnfiltered(answer, excludePostIds) ==
    IF answer.kind = "error" THEN [ok |-> FALSE, msg |-> answer.msg, question |-> None]
    ELSE [ok |-> TRUE, msg |-> MsgOther,
          question |-> IF Len(answer.ranked) = 0 THEN None ELSE answer.ranked[1]]

\* getReplacementQuestion: the first qualifying post outside excludePostIds,
\* None (null) when there is none, or the message of the error thrown
getReplacementQuestion(answer, excludePostIds) ==
    IF answer.kind = "error" THEN [ok |-> FALSE, msg |-> answer.msg, question |-> None]
    ELSE LET excludeSet == {Trim(id) : id \in Range(excludePostIds)} \ {""}
             left == SelectSeq(answer.ranked, LAMBDA p : p \notin excludeSet)
         IN  [ok |-> TRUE, msg |-> MsgOther,
              question |-> IF Len(left) = 0 THEN None ELSE left[1]]

\* What the environment of a specification supplies: the query parameters, the
\* answers of the content source per subreddit, whether a redis call may
\* fail, whether the history of served quizzes is kept, and the number of
\* quiz requests.
SeqEnv ==
    [subreddits |-> SubredditParams, dates |-> DateParams, postIds |-> {None},
     answers |-> [c \in Communities |-> ContentAnswers(c)],
     fails |-> {FALSE}, history |-> FALSE, limit |-> MaxQuizRequests]

PostIds == {"p1"}

\* served: the quizzes of the success responses per (subreddit, date);
\* first: the quiz of the first success response to a post's request;
\* created: the post ids reddit.submitCustomPost has returned;
\* older: per post, the cache keys last written before its metadata (they
\* expire before it, every entry living 30 days from its write);
\* lost: the cache keys that have expired
NoHistory ==
    [served |-> [key \in CacheKeys |-> {}],
     first |-> [p \in PostIds |-> <<>>],
     created |-> {},
     older |-> [p \in PostIds |-> {}],
     lost |-> {}]

\* The history after a step of request s: a success response adds its quiz to
\* the quizzes served for the (subreddit, date) it was served for, and is the
\* quiz first served to its post if none was before.
Recorded(s, E, qNew) ==
    LET rec == qNew[s]
    IN  IF E.history /\ q[s].pc # "done" /\ rec.pc = "done" /\ rec.resp.status = 200
        THEN LET key == getDailyCacheKey(rec.candidates[rec.k], rec.date)
                 h == [hist EXCEPT !.served[key] = @ \cup {rec.resp.quiz}]
             IN  IF rec.resolved /\ hist.first[rec.postId] = <<>>
                 THEN [h EXCEPT !.first[rec.postId] = <<rec.resp.quiz>>]
                 ELSE h
        ELSE hist

\* after the postId lookup: the daily subreddit when none is given, the
\* validation, and in rotation mode the rotation order whose skip checks follow
Resolve(rec, subredditParam, date) ==
    LET usingDailySubreddit == subredditParam = None \/ subredditParam = ""
        subreddit == IF usingDailySubreddit
                     THEN getDailySubreddit(TEST_SUBREDDIT, today)
                     ELSE subredditParam
        r == [rec EXCEPT !.rotation = usingDailySubreddit, !.date = date,
                         !.subreddit = subreddit]
    IN  IF Trim(subreddit) = ""
        THEN Responded(r, InvalidResponse)
        ELSE IF usingDailySubreddit
        THEN [r EXCEPT !.pc = "skip", !.i = 1,
                       !.order = getSubredditsInRotationOrder(today)]
        ELSE [r EXCEPT !.pc = "cache", !.k = 1, !.candidates = <<subreddit>>]

\* The handler up to its first await: the query parameters; without postId
\* also the validation and the rotation order.
QuizStart(s, E) ==
    /\ q[s].pc \in {"idle", "done"}
    /\ nQuiz < E.limit
    /\ nQuiz' = nQuiz + 1
    /\ \E postId \in E.postIds, subredditParam \in E.subreddits, date \in E.dates :
         LET rec == [IdleQuiz EXCEPT !.postId = postId, !.skip0 = skip]
         IN  q' = [q EXCEPT ![s] =
                 IF postId # None /\ postId # ""
                 THEN [rec EXCEPT !.pc = "meta", !.subreddit = subredditParam,
                                  !.date = date]
                 ELSE Resolve(rec, subredditParam, date)]
    /\ hist' = Recorded(s, E, q')
    /\ UNCHANGED <<storeVars, reportVars, otherVars, moreVars>>

\* A value stored under post_meta:{postId} is the one-element sequence of the
\* object createPost stringified; any other non-empty sequence is a text that
\* JSON.parse rejects.
UnparseableMeta == <<"{", "date">>

\* JSON.parse(postMetaData): <<postMeta>>, or <<>> when it throws
ParsePostMeta(postMetaData) == IF Len(postMetaData) = 1 THEN postMetaData ELSE <<>>

\* variant: a subreddit passed in the query is kept, the metadata fills in
\* what the query leaves out
QuizPostMetaQueryFirst(s, E) ==
    /\ q[s].pc = "meta"
    /\ \E fail \in E.fails, unhandled \in UnhandledOutcomes :
         LET rec == q[s]
             postMetaData == postMeta[rec.postId]
         IN  q' = [q EXCEPT ![s] =
                 IF fail
                 THEN Responded([rec EXCEPT !.storeFailed = TRUE], unhandled)
                 ELSE IF postMetaData # <<>> /\ ParsePostMeta(postMetaData) # <<>>
                 THEN Resolve([rec EXCEPT !.resolved = TRUE],
                              IF rec.subreddit \in {None, ""}
                              THEN postMetaData[1].subreddit ELSE rec.subreddit,
                              IF rec.date = <<>>
                              THEN <<postMetaData[1].date>> ELSE rec.date)
                 ELSE Resolve(rec, rec.subreddit, rec.date)]
    /\ hist' = Recorded(s, E, q')
    /\ UNCHANGED <<storeVars, reportVars, otherVars, moreVars, nQuiz>>

\* const postMetaData = await redis.get(postMetaKey): the post's subreddit and
\* date replace the parameters; a text that does not parse is logged and the
\* parameters stay
QuizPostMeta(s, E) ==
    /\ q[s].pc = "meta"
    /\ \E fail \in E.fails, unhandled \in UnhandledOutcomes :
         LET rec == q[s]
             postMetaData == postMeta[rec.postId]
         IN  q' = [q EXCEPT ![s] =
                 IF fail
                 THEN Responded([rec EXCEPT !.storeFailed = TRUE], unhandled)
                 ELSE IF postMetaData # <<>> /\ ParsePostMeta(postMetaData) # <<>>
                 THEN Resolve([rec EXCEPT !.resolved = TRUE],
                              ParsePostMeta(postMetaData)[1].subreddit,
                              <<ParsePostMeta(postMetaData)[1].date>>)
                 ELSE Resolve(rec, rec.subreddit, rec.date)]
    /\ hist' = Recorded(s, E, q')
    /\ UNCHANGED <<storeVars, reportVars, otherVars, moreVars, nQuiz>>

\* isSubredditSkipped(c) for the next subreddit of the rotation order; after
\* the last one the candidates are complete
QuizSkipCheck(s, E) ==
    /\ q[s].pc = "skip"
    /\ \E fail \in E.fails, unhandled \in UnhandledOutcomes :
         LET rec == q[s]
             c == rec.order[rec.i]
             candidates == IF Includes(skip, c) THEN rec.candidates
                           ELSE Append(rec.candidates, c)
             r == [rec EXCEPT !.candidates = candidates]
         IN  q' = [q EXCEPT ![s] =
                 IF fail
                 THEN Responded([rec EXCEPT !.storeFailed = TRUE], unhandled)
                 ELSE IF rec.i < Len(rec.order)
                 THEN [r EXCEPT !.i = rec.i + 1]
                 ELSE IF Len(candidates) = 0
                 THEN Responded(r, NoCandidateResponse)
                 ELSE [r EXCEPT !.pc = "cache", !.k = 1]]
    /\ hist' = Recorded(s, E, q')
    /\ UNCHANGED <<storeVars, reportVars, otherVars, moreVars, nQuiz>>

\* variant: the cached quiz is never found
QuizCacheGetAlwaysMiss(s, E) ==
    /\ q[s].pc = "cache"
    /\ q' = [q EXCEPT ![s].tried = Append(@, q[s].candidates[q[s].k]),
                      ![s].pc = "fetch"]
    /\ hist' = Recorded(s, E, q')
    /\ UNCHANGED <<storeVars, reportVars, otherVars, moreVars, nQuiz>>

\* const cachedQuiz = await getCachedQuiz(candidate, date)
QuizCacheGet(s, E) ==
    /\ q[s].pc = "cache"
    /\ \E fail \in E.fails :
         LET rec == q[s]
             candidate == rec.candidates[rec.k]
             cachedQuiz == cache[getDailyCacheKey(candidate, rec.date)]
             r == [rec EXCEPT !.tried = Append(@, candidate)]
         IN  q' = [q EXCEPT ![s] =
                 IF fail
                 THEN Responded([r EXCEPT !.storeFailed = TRUE], UnexpectedResponse)
                 ELSE IF cachedQuiz # None /\ Len(cachedQuiz) > 0
                 THEN [r EXCEPT !.pc = "replaced", !.path = "hit",
                                !.quizData = cachedQuiz,
                                !.yielded = Append(@, candidate)]
                 ELSE [r EXCEPT !.pc = "fetch"]]
    /\ hist' = Recorded(s, E, q')
    /\ UNCHANGED <<storeVars, reportVars, otherVars, moreVars, nQuiz>>

\* the outcome of fetchQuizData, for the history
FetchKindOf(answer, got) ==
    IF got.ok THEN "five"
    ELSE IF answer.kind = "error" THEN "threw"
    ELSE IF ~answer.any THEN "none" ELSE "few"

\* const quizData = await fetchQuizData(candidate)
QuizFetch(s, E) ==
    /\ q[s].pc = "fetch"
    /\ \E answer \in E.answers[q[s].candidates[q[s].k]] :
         LET candidate == q[s].candidates[q[s].k]
             got == fetchQuizData(answer)
             rec == [q[s] EXCEPT !.fetched = @ \cup {candidate},
                                 !.fetchKind = FetchKindOf(answer, got)]
         IN  q' = [q EXCEPT ![s] =
                 IF ~got.ok THEN HandleFetchError(rec, got.msg)
                 ELSE IF Len(got.quiz) = 0
                 THEN IF rec.rotation THEN [rec EXCEPT !.pc = "skipGet"]
                      ELSE Responded(rec, InsufficientResponse)
                 ELSE [rec EXCEPT !.pc = "cacheSet", !.path = "miss",
                                  !.quizData = got.quiz,
                                  !.yielded = Append(@, candidate)]]
    /\ hist' = Recorded(s, E, q')
    /\ UNCHANGED <<storeVars, reportVars, otherVars, moreVars, nQuiz>>

\* variant: a quiz already stored under the key is kept
QuizCacheSetFirstWins(s, E) ==
    /\ q[s].pc = "cacheSet"
    /\ LET key == getDailyCacheKey(q[s].candidates[q[s].k], q[s].date)
       IN  cache' = [cache EXCEPT ![key] = IF @ = None THEN q[s].quizData ELSE @]
    /\ q' = [q EXCEPT ![s].pc = "replaced"]
    /\ UNCHANGED <<report, replaced, skip, postMeta, today, hist, reportVars, otherVars, moreVars, nQuiz>>

\* variant: a failure of redis.set is thrown on to the handler's outer catch
QuizCacheSetThrows(s, E) ==
    /\ q[s].pc = "cacheSet"
    /\ \E fail \in E.fails :
         LET rec == q[s]
             key == getDailyCacheKey(rec.candidates[rec.k], rec.date)
         IN  IF fail
             THEN /\ q' = [q EXCEPT ![s] =
                             Responded([rec EXCEPT !.writeFailed = TRUE],
                                       UnexpectedResponse)]
                  /\ UNCHANGED <<cache, hist>>
             ELSE /\ cache' = [cache EXCEPT ![key] = rec.quizData]
                  /\ q' = [q EXCEPT ![s].pc = "replaced"]
                  /\ hist' = IF E.history
                             THEN [hist EXCEPT !.older = [p \in PostIds |-> @[p] \ {key}]]
                             ELSE hist
    /\ UNCHANGED <<report, replaced, skip, postMeta, today, reportVars, otherVars, moreVars, nQuiz>>

\* await cacheQuiz(candidate, quizData, date): a failure of redis.set is
\* caught and logged inside cacheQuiz
QuizCacheSet(s, E) ==
    /\ q[s].pc = "cacheSet"
    /\ \E fail \in E.fails :
         LET rec == q[s]
             key == getDailyCacheKey(rec.candidates[rec.k], rec.date)
         IN  IF fail
             THEN /\ q' = [q EXCEPT ![s].pc = "replaced", ![s].writeFailed = TRUE]
                  /\ UNCHANGED <<cache, hist>>
             ELSE /\ cache' = [cache EXCEPT ![key] = rec.quizData]
                  /\ q' = [q EXCEPT ![s].pc = "replaced"]
                  /\ hist' = IF E.history
                             THEN [hist EXCEPT !.older = [p \in PostIds |-> @[p] \ {key}]]
                             ELSE hist
    /\ UNCHANGED <<report, replaced, skip, postMeta, today, reportVars, otherVars, moreVars, nQuiz>>

\* const replacedIds = await getReplacedPostIds(); const quizOut = [...]; and
\* the substitution loop up to its first await
QuizReplacedGet(s, E) ==
    /\ q[s].pc = "replaced"
    /\ \E fail \in E.fails, error \in StoreErrors :
         LET rec == q[s]
             r == [rec EXCEPT !.replacedIds = replaced, !.quizOut = rec.quizData]
             e == [rec EXCEPT !.storeFailed = TRUE]
         IN  q' = [q EXCEPT ![s] =
                 IF ~fail THEN SubstitutionLoop(r, 1)
                 ELSE IF rec.path = "hit" THEN Responded(e, UnexpectedResponse)
                 ELSE HandleFetchError(e, error)]
    /\ hist' = Recorded(s, E, q')
    /\ UNCHANGED <<storeVars, reportVars, otherVars, moreVars, nQuiz>>

\* variant: a quiz with a substituted question is written back to the cache
QuizSubstituteStores(s, E) ==
    /\ q[s].pc = "subst"
    /\ \E answer \in E.answers[q[s].candidates[q[s].k]] :
         LET rec == [q[s] EXCEPT !.fetched = @ \cup {q[s].candidates[q[s].k]}]
             got == getReplacementQuestion(answer, rec.quizOut \o rec.replacedIds)
             r == IF got.question # None
                  THEN [rec EXCEPT !.quizOut[rec.j] = got.question,
                                   !.subs = Append(@, got.question)]
                  ELSE [rec EXCEPT !.noRepl = @ \cup {rec.j}]
             e == [rec EXCEPT !.replThrew = TRUE]
         IN  /\ q' = [q EXCEPT ![s] =
                     IF got.ok THEN SubstitutionLoop(r, rec.j + 1)
                     ELSE IF rec.path = "hit" THEN Responded(e, UnexpectedResponse)
                     ELSE HandleFetchError(e, got.msg)]
             /\ cache' = IF got.ok /\ got.question # None
                         THEN [cache EXCEPT
                                 ![getDailyCacheKey(rec.candidates[rec.k], rec.date)] =
                                     r.quizOut]
                         ELSE cache
    /\ hist' = Recorded(s, E, q')
    /\ UNCHANGED <<report, replaced, skip, postMeta, today, reportVars, otherVars, moreVars, nQuiz>>

\* const replacement = await getReplacementQuestion(candidate, [...]);
\* if (replacement) quizOut[i] = replacement; and the loop up to its next await
QuizSubstitute(s, E) ==
    /\ q[s].pc = "subst"
    /\ \E answer \in E.answers[q[s].candidates[q[s].k]] :
         LET rec == [q[s] EXCEPT !.fetched = @ \cup {q[s].candidates[q[s].k]}]
             got == getReplacementQuestion(answer, rec.quizOut \o rec.replacedIds)
             r == IF got.question # None
                  THEN [rec EXCEPT !.quizOut[rec.j] = got.question,
                                   !.subs = Append(@, got.question)]
                  ELSE [rec EXCEPT !.noRepl = @ \cup {rec.j}]
             e == [rec EXCEPT !.replThrew = TRUE]
         IN  q' = [q EXCEPT ![s] =
                 IF got.ok THEN SubstitutionLoop(r, rec.j + 1)
                 ELSE IF rec.path = "hit" THEN Responded(e, UnexpectedResponse)
                 ELSE HandleFetchError(e, got.msg)]
    /\ hist' = Recorded(s, E, q')
    /\ UNCHANGED <<storeVars, reportVars, otherVars, moreVars, nQuiz>>

\* addSubredditToSkipList: const raw = await redis.get(SKIP_SUBREDDITS_KEY);
\* if (!normalized || list.includes(normalized)) return; list.push(normalized).
\* It is awaited inside the catch block, so its rejection reaches the outer
\* catch.
QuizSkipListGet(s, E) ==
    /\ q[s].pc = "skipGet"
    /\ \E fail \in E.fails :
         LET rec == q[s]
             list == skip
             normalized == Trim(rec.candidates[rec.k])
         IN  q' = [q EXCEPT ![s] =
                 IF fail
                 THEN Responded([rec EXCEPT !.storeFailed = TRUE], UnexpectedResponse)
                 ELSE IF normalized = "" \/ Includes(list, normalized)
                 THEN Continue(rec)
                 ELSE [rec EXCEPT !.pc = "skipSet", !.list = Append(list, normalized)]]
    /\ hist' = Recorded(s, E, q')
    /\ UNCHANGED <<storeVars, reportVars, otherVars, moreVars, nQuiz>>

\* addSubredditToSkipList: await redis.set(SKIP_SUBREDDITS_KEY, ...); continue
QuizSkipListSet(s, E) ==
    /\ q[s].pc = "skipSet"
    /\ \E fail \in E.fails :
         IF fail
         THEN /\ q' = [q EXCEPT ![s] =
                         Responded([q[s] EXCEPT !.storeFailed = TRUE, !.list = <<>>],
                                   UnexpectedResponse)]
              /\ UNCHANGED skip
         ELSE /\ skip' = q[s].list
              /\ q' = [q EXCEPT ![s] = Continue([q[s] EXCEPT !.list = <<>>])]
    /\ hist' = Recorded(s, E, q')
    /\ UNCHANGED <<report, replaced, cache, postMeta, today, reportVars, otherVars, moreVars, nQuiz>>

\* one step of request s
QuizStep(s, E) ==
    \/ QuizStart(s, E)
    \/ QuizSkipCheck(s, E)
    \/ QuizCacheGet(s, E)
    \/ QuizFetch(s, E)
    \/ QuizCacheSet(s, E)
    \/ QuizReplacedGet(s, E)
    \/ QuizSubstitute(s, E)
    \/ QuizSkipListGet(s, E)
    \/ QuizSkipListSet(s, E)

\* quiz requests one at a time, without postId
QuizNext == QuizStep(1, SeqEnv)

----------------------------------------------------------------------------
(* Published posts, the passing of time *)

\* createPost: the post id returned by reddit.submitCustomPost, then
\* await redis.set(postMetaKey, JSON.stringify(postMeta), { expiration })
CreatePost(p) ==
    /\ p \notin hist.created
    /\ postMeta' = [postMeta EXCEPT ![p] =
           <<[date |-> today, subreddit |-> getDailySubreddit(TEST_SUBREDDIT, today)]>>]
    /\ hist' = [hist EXCEPT !.created = @ \cup {p},
                             !.older[p] = {key \in CacheKeys : cache[key] # None}]
    /\ UNCHANGED <<report, replaced, skip, cache, today, reportVars, otherVars, moreVars, quizVars>>

\* The cached quiz under key reaches its expiration, 30 days after its write:
\* before the metadata of every post written after it.
ExpireCachedQuiz(key) ==
    /\ cache[key] # None
    /\ \A p \in PostIds : postMeta[p] # <<>> => key \in hist.older[p]
    /\ cache' = [cache EXCEPT ![key] = None]
    /\ hist' = [hist EXCEPT !.older = [p \in PostIds |-> @[p] \ {key}],
                             !.lost = @ \cup {key}]
    /\ UNCHANGED <<report, replaced, skip, postMeta, today, reportVars, otherVars, moreVars, quizVars>>

\* The metadata of post p reaches its expiration, after every cached quiz
\* written before it.
ExpirePostMeta(p) ==
    /\ postMeta[p] # <<>>
    /\ hist.older[p] = {}
    /\ postMeta' = [postMeta EXCEPT ![p] = <<>>]
    /\ UNCHANGED <<report, replaced, skip, cache, today, hist, reportVars, otherVars, moreVars, quizVars>>

\* midnight: new Date() is a day later
NextDay ==
    /\ today < MaxDay
    /\ today' = today + 1
    /\ UNCHANGED <<report, replaced, skip, cache, postMeta, hist, reportVars, otherVars, moreVars, quizVars>>

\* number of quiz requests of one behaviour with published posts
MaxPostRequests == 3

\* The content source when every listing succeeds and the hot posts change
\* between two listings: the five questions are the posts 1..5 or 2..6 of
\* the feed.
ChangingAnswers(c) ==
    [kind : {"ok"}, msg : {MsgOther}, any : {TRUE},
     ranked : {SubSeq(FeedOf(c), 1, 5), SubSeq(FeedOf(c), 2, 6)}]

PostEnv ==
    [subreddits |-> {None}, dates |-> {<<>>}, postIds |-> {None, "p1"},
     answers |-> [c \in Communities |-> ChangingAnswers(c)],
     fails |-> {FALSE}, history |-> TRUE, limit |-> MaxPostRequests]

\* quiz requests one at a time, with and without postId, while posts are
\* published, days pass and entries expire (no post is replaced and no
\* listing fails in these behaviours: the substitution loop awaits nothing
\* and the skip list is not touched)
PostNext ==
    \/ QuizStart(1, PostEnv)
    \/ QuizPostMeta(1, PostEnv)
    \/ QuizSkipCheck(1, PostEnv)
    \/ QuizCacheGet(1, PostEnv)
    \/ QuizFetch(1, PostEnv)
    \/ QuizCacheSet(1, PostEnv)
    \/ QuizReplacedGet(1, PostEnv)
    \/ \E p \in PostIds : CreatePost(p)
    \/ \E key \in CacheKeys : ExpireCachedQuiz(key)
    \/ \E p \in PostIds : ExpirePostMeta(p)
    \/ NextDay

\* requests that name their subreddit, directly or through the post they come
\* from, next to requests in rotation mode
ExplicitEnv ==
    [subreddits |-> {None} \cup ExplicitSubreddits, dates |-> {<<>>},
     postIds |-> {None, "p1"},
     answers |-> [c \in Communities |-> ContentAnswers(c)],
     fails |-> {FALSE}, history |-> FALSE, limit |-> MaxQuizRequests]

\* quiz requests one at a time, with and without postId, and the publication
\* of posts
ExplicitNext ==
    \/ QuizStep(1, ExplicitEnv)
    \/ QuizPostMeta(1, ExplicitEnv)
    \/ \E p \in PostIds : CreatePost(p)

\* number of quiz requests of one behaviour that follows the quizzes served
\* for a key
MaxSubstRequests == 3

\* requests of one day, in rotation mode or for one subreddit, the quizzes
\* served being recorded
SubstEnv ==
    [subreddits |-> {None} \cup ExplicitSubreddits, dates |-> {<<>>},
     postIds |-> {None},
     answers |-> [c \in Communities |-> ContentAnswers(c)],
     fails |-> {FALSE}, history |-> TRUE, limit |-> MaxSubstRequests]

\* quiz requests one at a time while posts are in the replaced list
SubstNext == QuizStep(1, SubstEnv)

\* number of quiz requests of one behaviour with overlapping requests
MaxParRequests == 3

\* requests of one day, in rotation mode or for one subreddit, while the hot
\* posts change
ParEnv ==
    [subreddits |-> {None} \cup ExplicitSubreddits, dates |-> {<<>>},
     postIds |-> {None},
     answers |-> [c \in Communities |-> ChangingAnswers(c)],
     fails |-> {FALSE}, history |-> TRUE, limit |-> MaxParRequests]

\* overlapping quiz requests: each await of one request may be followed by
\* steps of the other (no post is replaced and no listing fails)
ParNext ==
    \E s \in QuizSlots :
        \/ QuizStart(s, ParEnv)
        \/ QuizSkipCheck(s, ParEnv)
        \/ QuizCacheGet(s, ParEnv)
        \/ QuizFetch(s, ParEnv)
        \/ QuizCacheSet(s, ParEnv)
        \/ QuizReplacedGet(s, ParEnv)

\* number of quiz requests of one behaviour with a failing store
MaxFailRequests == 2

\* the content source when a listing is refused or yields the posts 1..5
FailAnswers(c) ==
    [kind : {"error"}, msg : {MsgForbidden}, any : {FALSE}, ranked : {<<>>}]
    \cup [kind : {"ok"}, msg : {MsgOther}, any : {TRUE},
          ranked : {SubSeq(FeedOf(c), 1, 5)}]

\* requests during which any call of the key-value store may be rejected
FailEnv ==
    [subreddits |-> {None} \cup ExplicitSubreddits, dates |-> {<<>>},
     postIds |-> {None, "p1"},
     answers |-> [c \in Communities |-> FailAnswers(c)],
     fails |-> BOOLEAN, history |-> FALSE, limit |-> MaxFailRequests]

\* quiz requests one at a time over a store whose calls may fail (no post is
\* replaced)
FailNext ==
    \/ QuizStart(1, FailEnv)
    \/ QuizPostMeta(1, FailEnv)
    \/ QuizSkipCheck(1, FailEnv)
    \/ QuizCacheGet(1, FailEnv)
    \/ QuizFetch(1, FailEnv)
    \/ QuizCacheSet(1, FailEnv)
    \/ QuizReplacedGet(1, FailEnv)
    \/ QuizSkipListGet(1, FailEnv)
    \/ QuizSkipListSet(1, FailEnv)

----------------------------------------------------------------------------
(* The content filter and ranker: fetchSubredditPosts, fetchPostComments,   *)
(* getContentLength, transformToQuizFormat, fetchQuizData and               *)
(* getReplacementQuestion of quiz.ts, on the objects the content source     *)
(* returns.  An optional property of an object is <<>> when it is undefined *)
(* or null and <<v>> when it holds v.                                       *)

\* number of comments asked of the content source for a post
COMMENT_LIMIT == 5

\* number of comments a question keeps
TOP_COMMENTS == 3

\* a ?? b
Coalesce(a, b) == IF a # <<>> THEN a ELSE b

\* a ?? value, a || value for a string
Default(a, value) == IF a # <<>> THEN a[1] ELSE value

\* the RedditPost made from one post object of the listing; ids carry no
\* "t3_" prefix here, so the prefix is never stripped
MapPost(src) ==
    [id |-> src.id,
     title |-> Default(src.title, ""),
     selftext |-> Default(src.selftext, ""),
     over_18 |-> Default(Coalesce(Coalesce(src.over_18, src.over18), src.nsfw), FALSE),
     stickied |-> Default(src.stickied, FALSE),
     distinguished |-> src.distinguished,
     locked |-> Default(src.locked, FALSE),
     crosspost_parent |-> Coalesce(src.crosspost_parent, src.crosspostParent),
     crosspost_parent_list |-> Coalesce(src.crosspost_parent_list, src.crosspostParentList),
     is_crosspost |-> Default(Coalesce(src.is_crosspost, src.isCrosspost), FALSE)]

fetchSubredditPostsWithDevvitAPI(listing) ==
    [i \in 1..Len(listing) |-> MapPost(listing[i])]

\* variant: locked posts pass
PassesPostFilterLockedToo(post) ==
    /\ ~(post.title = "" \/ post.title = "[deleted]" \/ post.title = "[removed]")
    /\ ~post.over_18
    /\ ~post.stickied
    /\ ~(post.distinguished = <<"moderator">> \/ post.distinguished = <<"admin">>)
    /\ ~(post.crosspost_parent # <<>> /\ post.crosspost_parent[1] # "")
    /\ ~post.is_crosspost
    /\ ~(post.crosspost_parent_list # <<>> /\ Len(post.crosspost_parent_list[1]) > 0)

\* the callback of posts.filter in fetchSubredditPosts
PassesPostFilter(post) ==
    /\ ~(post.title = "" \/ post.title = "[deleted]" \/ post.title = "[removed]")
    /\ ~post.over_18
    /\ ~post.stickied
    /\ ~(post.distinguished = <<"moderator">> \/ post.distinguished = <<"admin">>)
    /\ ~post.locked
    /\ ~(post.crosspost_parent # <<>> /\ post.crosspost_parent[1] # "")
    /\ ~post.is_crosspost
    /\ ~(post.crosspost_parent_list # <<>> /\ Len(post.crosspost_parent_list[1]) > 0)

fetchSubredditPosts(listing) ==
    SelectSeq(fetchSubredditPostsWithDevvitAPI(listing), PassesPostFilter)

\* the test of extractComments: the comment is neither empty nor deleted nor removed
Survives(comment) ==
    /\ comment.body # ""
    /\ comment.body # "[deleted]"
    /\ comment.body # "[removed]"

\* ups: comment.ups || comment.score || 0
Transformed(comment) ==
    [body |-> comment.body,
     ups |-> IF comment.ups # 0 THEN comment.ups ELSE comment.score]

\* extractComments(commentsArray), from its i-th comment on: a surviving
\* comment is pushed and its replies are walked; the loop stops once limit
\* comments have been pushed
RECURSIVE extractComments(_, _, _, _)
extractComments(commentsArray, i, transformedComments, limit) ==
    IF i > Len(commentsArray) THEN transformedComments
    ELSE LET comment == commentsArray[i]
             pushed == IF Survives(comment)
                       THEN extractComments(comment.replies, 1,
                                Append(transformedComments, Transformed(comment)), limit)
                       ELSE transformedComments
         IN  IF Len(pushed) >= limit THEN pushed
             ELSE extractComments(commentsArray, i + 1, pushed, limit)

\* one step of the stable sort by (a, b) => b.ups - a.ups
RECURSIVE InsertByUps(_, _)
InsertByUps(sorted, comment) ==
    IF sorted = <<>> THEN <<comment>>
    ELSE IF Head(sorted).ups >= comment.ups
         THEN <<Head(sorted)>> \o InsertByUps(Tail(sorted), comment)
         ELSE <<comment>> \o sorted

RECURSIVE SortByUps(_)
SortByUps(comments) ==
    IF comments = <<>> THEN <<>>
    ELSE InsertByUps(SortByUps(SubSeq(comments, 1, Len(comments) - 1)),
                     comments[Len(comments)])

Slice(seq, n) == SubSeq(seq, 1, IF Len(seq) < n THEN Len(seq) ELSE n)

\* fetchPostComments on the comments the content source lists for the post
fetchPostComments(comments, limit) ==
    Slice(SortByUps(extractComments(comments, 1, <<>>, limit)), limit)

hasClearWinner(comments) ==
    IF Len(comments) < TOP_COMMENTS THEN FALSE
    ELSE comments[1].ups > comments[2].ups

RECURSIVE SumLen(_)
SumLen(comments) ==
    IF comments = <<>> THEN 0
    ELSE Len(Head(comments).body) + SumLen(Tail(comments))

\* getContentLength: <<>> is Number.POSITIVE_INFINITY, <<n>> the length n
getContentLength(post, comments) ==
    IF Len(comments) < TOP_COMMENTS \/ ~hasClearWinner(comments) THEN <<>>
    ELSE <<Len(post.title) + Len(post.selftext) + SumLen(Slice(comments, TOP_COMMENTS))>>

\* getContentLength(a) - getContentLength(b) < 0; Infinity - Infinity is NaN,
\* which sort takes as 0
ShorterThan(a, b) == a # <<>> /\ (b = <<>> \/ a[1] < b[1])

\* the comments the map holds for a post: commentsMap.get(post.id) || []
CommentsOf(commentsMap, post) ==
    IF post.id \in DOMAIN commentsMap THEN commentsMap[post.id] ELSE <<>>

\* variant: the posts keep the order of the listing
KeepOrder(sorted, post, commentsMap) == Append(sorted, post)

\* one step of the stable sort by content length, ascending
RECURSIVE InsertByLength(_, _, _)
InsertByLength(sorted, post, commentsMap) ==
    IF sorted = <<>> THEN <<post>>
    ELSE IF ShorterThan(getContentLength(post, CommentsOf(commentsMap, post)),
                        getContentLength(Head(sorted), CommentsOf(commentsMap, Head(sorted))))
         THEN <<post>> \o sorted
         ELSE <<Head(sorted)>> \o InsertByLength(Tail(sorted), post, commentsMap)

RECURSIVE SortByLength(_, _)
SortByLength(posts, commentsMap) ==
    IF posts = <<>> THEN <<>>
    ELSE InsertByLength(SortByLength(SubSeq(posts, 1, Len(posts) - 1), commentsMap),
                        posts[Len(posts)], commentsMap)

QuizQuestion(post, comments) ==
    [postId |-> post.id, title |-> post.title,
     comments |-> Slice(comments, TOP_COMMENTS)]

\* transformToQuizFormat, from the i-th post on
RECURSIVE transformToQuizFormat(_, _, _, _)
transformToQuizFormat(posts, commentsMap, i, quizQuestions) ==
    IF i > Len(posts) THEN quizQuestions
    ELSE LET comments == CommentsOf(commentsMap, posts[i])
         IN  IF Len(comments) < TOP_COMMENTS \/ ~hasClearWinner(comments)
             THEN transformToQuizFormat(posts, commentsMap, i + 1, quizQuestions)
             ELSE IF Len(quizQuestions) + 1 >= QUIZ_SIZE
                  THEN Append(quizQuestions, QuizQuestion(posts[i], comments))
                  ELSE transformToQuizFormat(posts, commentsMap, i + 1,
                           Append(quizQuestions, QuizQuestion(posts[i], comments)))

\* a question list or a single question was returned, or an error was thrown
SelectResults == {"none", "questions", "question", "null", "thrown"}

\* no selection is running
IdleSel ==
    [pc |-> "idle", mode |-> "quiz", listing |-> <<>>, excludePostIds |-> {},
     posts |-> <<>>, commentsMap |-> <<>>, quizQuestions |-> <<>>,
     result |-> "none"]

\* the post object of the listing a RedditPost was made from
SourceOf(listing, id) ==
    listing[CHOOSE i \in 1..Len(listing) : listing[i].id = id]

\* fetchQuizData and getReplacementQuestion up to the end of
\* await fetchSubredditPosts: the posts that pass the filter and, for a
\* replacement, are not excluded; no post left ends the call
SelectPosts ==
    /\ sel.pc = "start"
    /\ LET filtered == fetchSubredditPosts(sel.listing)
           NotExcluded(post) == post.id \notin sel.excludePostIds
           posts == IF sel.mode = "replacement"
                    THEN SelectSeq(filtered, NotExcluded) ELSE filtered
       IN  sel' = IF Len(posts) = 0
                  THEN [sel EXCEPT !.pc = "done",
                                   !.result = IF sel.mode = "replacement"
                                              THEN "null" ELSE "thrown"]
                  ELSE [sel EXCEPT !.pc = "comments", !.posts = posts]
    /\ UNCHANGED <<storeVars, hist, reportVars, quizVars, rot, adm, adminSecret, moreVars>>

\* up to the end of await Promise.all(commentPromises) and the making of the
\* map: the comments of every post, [] for a post whose comments could not be
\* fetched; a post is entered into the map only when it has comments
SelectComments ==
    /\ sel.pc = "comments"
    /\ LET Fetched(id) ==
               IF SourceOf(sel.listing, id).commentsFail THEN <<>>
               ELSE fetchPostComments(SourceOf(sel.listing, id).comments,
                                      COMMENT_LIMIT)
           ids == {sel.posts[i].id : i \in 1..Len(sel.posts)}
           mapped == {id \in ids : Len(Fetched(id)) > 0}
       IN  sel' = [sel EXCEPT !.pc = "sort",
                              !.commentsMap = [id \in mapped |-> Fetched(id)]]
    /\ UNCHANGED <<storeVars, hist, reportVars, quizVars, rot, adm, adminSecret, moreVars>>

\* the sort by content length, up to await enrichPostsWithVideoUrls, which
\* keeps the posts and their order
SelectSort ==
    /\ sel.pc = "sort"
    /\ sel' = [sel EXCEPT !.pc = "transform",
                          !.posts = SortByLength(sel.posts, sel.commentsMap)]
    /\ UNCHANGED <<storeVars, hist, reportVars, quizVars, rot, adm, adminSecret, moreVars>>

\* transformToQuizFormat and the return: fetchQuizData throws when fewer than
\* five questions were made, getReplacementQuestion returns the first question
\* or null
SelectTransform ==
    /\ sel.pc = "transform"
    /\ LET quizQuestions == transformToQuizFormat(sel.posts, sel.commentsMap, 1, <<>>)
       IN  sel' = [sel EXCEPT
                     !.pc = "done",
                     !.quizQuestions = quizQuestions,
                     !.result = IF sel.mode = "replacement"
                                THEN IF Len(quizQuestions) > 0 THEN "question" ELSE "null"
                                ELSE IF Len(quizQuestions) < QUIZ_SIZE THEN "thrown"
                                     ELSE "questions"]
    /\ UNCHANGED <<storeVars, hist, reportVars, quizVars, rot, adm, adminSecret, moreVars>>

SelectNext == SelectPosts \/ SelectComments \/ SelectSort \/ SelectTransform

\* what the call returned: the questions of fetchQuizData, the one question of
\* getReplacementQuestion, nothing after an error or null
Output ==
    IF sel.pc # "done" THEN <<>>
    ELSE IF sel.result = "questions" THEN sel.quizQuestions
    ELSE IF sel.result = "question" THEN <<sel.quizQuestions[1]>>
    ELSE <<>>

----------------------------------------------------------------------------
(* The listings the content source may return *)

\* highest upvote count of a comment of the examined post
MaxUps == 2

\* highest number of posts of a listing of arbitrary posts
MaxFeed == 7

\* the comments of the examined post number up to one more than are asked for
MaxComments == COMMENT_LIMIT + 1

Comment(body, ups, replies) ==
    [body |-> body, ups |-> ups, score |-> ups, replies |-> replies]

\* a comment object that carries its votes as score only
ScoreOnly(comment) == [comment EXCEPT !.ups = 0]

FlatComments(upsList) ==
    [i \in 1..Len(upsList) |-> Comment("cc", upsList[i], <<>>)]

\* a post object no rule of the filter rejects
RawPost(id, title, comments) ==
    [id |-> id, title |-> <<title>>, selftext |-> <<>>,
     over_18 |-> <<>>, over18 |-> <<>>, nsfw |-> <<FALSE>>,
     stickied |-> <<FALSE>>, distinguished |-> <<>>, locked |-> <<FALSE>>,
     crosspost_parent |-> <<>>, crosspostParent |-> <<>>,
     crosspost_parent_list |-> <<>>, crosspostParentList |-> <<>>,
     is_crosspost |-> <<>>, isCrosspost |-> <<>>,
     comments |-> comments, commentsFail |-> FALSE]

\* posts with three comments and a clear winner, longer than the examined post
Filler(n) ==
    RawPost(<<"f1", "f2", "f3", "f4", "f5">>[n], "a filler title",
            FlatComments(<<3, 2, 1>>))

Fillers(n) == [i \in 1..n |-> Filler(i)]

\* the kinds of a top-level comment of the examined post: 0 is a deleted,
\* removed or empty comment, 1 .. MaxUps a comment of so many upvotes, and
\* MaxUps + 1 a comment of one upvote with a reply of MaxUps upvotes
CommentKinds == 0..(MaxUps + 1)

DeadBodies == <<"[deleted]", "[removed]", "">>

\* the comment of a kind at a position of the listing: the body of a deleted
\* comment, whether it has a surviving reply and whether the votes come as
\* score only vary with the position
CommentAt(kind, i) ==
    IF kind = 0
    THEN Comment(DeadBodies[(i % 3) + 1], 1,
                 IF i % 2 = 1 THEN <<Comment("rr", MaxUps, <<>>)>> ELSE <<>>)
    ELSE IF kind = MaxUps + 1
    THEN Comment("cc", 1, <<Comment("rr", MaxUps, <<>>)>>)
    ELSE IF i % 2 = 0 THEN ScoreOnly(Comment("cc", kind, <<>>))
    ELSE Comment("cc", kind, <<>>)

CommentTree(kinds) == [i \in 1..Len(kinds) |-> CommentAt(kinds[i], i)]

StartSel(mode, listing, excludePostIds) ==
    [IdleSel EXCEPT !.pc = "start", !.mode = mode, !.listing = listing,
                    !.excludePostIds = excludePostIds]

\* one examined post with any comment tree, ahead of four fillers
CommentInit ==
    \E n \in 0..MaxComments : \E kinds \in [1..n -> CommentKinds] :
        sel = StartSel("quiz", <<RawPost("p", "t", CommentTree(kinds))>> \o Fillers(4), {})

\* the kinds of a post of an arbitrary listing: short and long posts with a
\* clear winner, and a post that does not qualify: its two first comments tie
\* at an odd position of the listing, its title is deleted at an even one
PostKinds == {"short", "long", "unfit"}

PostIdAt == <<"p1", "p2", "p3", "p4", "p5", "p6", "p7", "p8">>

PostAt(kind, i) ==
    IF kind = "short" THEN RawPost(PostIdAt[i], "t", FlatComments(<<20, 5, 1>>))
    ELSE IF kind = "long"
    THEN [RawPost(PostIdAt[i], "a long title", FlatComments(<<20, 5, 1>>))
             EXCEPT !.selftext = <<"text">>]
    ELSE IF i % 2 = 1 THEN RawPost(PostIdAt[i], "t", FlatComments(<<10, 10, 5>>))
    ELSE RawPost(PostIdAt[i], "[deleted]", FlatComments(<<20, 5, 1>>))

Feed(kinds) == [i \in 1..Len(kinds) |-> PostAt(kinds[i], i)]

\* a listing of up to MaxFeed posts of any kinds
FeedInit ==
    \E n \in 0..MaxFeed : \E kinds \in [1..n -> PostKinds] :
        sel = StartSel("quiz", Feed(kinds), {})

\* the examined post with one property that the filter looks at set, or with
\* comments that cannot be fetched
GoodProbe == RawPost("p", "t", FlatComments(<<3, 2, 1>>))

ProbePosts ==
    {GoodProbe}
    \cup {[GoodProbe EXCEPT !.title = t] : t \in {<<>>, <<"">>, <<"[deleted]">>, <<"[removed]">>}}
    \cup {[GoodProbe EXCEPT !.nsfw = <<>>, !.over_18 = <<TRUE>>],
          [GoodProbe EXCEPT !.nsfw = <<>>, !.over18 = <<TRUE>>],
          [GoodProbe EXCEPT !.nsfw = <<TRUE>>],
          [GoodProbe EXCEPT !.stickied = <<TRUE>>],
          [GoodProbe EXCEPT !.stickied = <<>>],
          [GoodProbe EXCEPT !.distinguished = <<"moderator">>],
          [GoodProbe EXCEPT !.distinguished = <<"admin">>],
          [GoodProbe EXCEPT !.distinguished = <<"special">>],
          [GoodProbe EXCEPT !.locked = <<TRUE>>],
          [GoodProbe EXCEPT !.crosspost_parent = <<"t3_x">>],
          [GoodProbe EXCEPT !.crosspostParent = <<"t3_x">>],
          [GoodProbe EXCEPT !.crosspost_parent_list = << <<"t3_x">> >>],
          [GoodProbe EXCEPT !.crosspostParentList = << <<"t3_x">> >>],
          [GoodProbe EXCEPT !.crosspost_parent_list = << <<>> >>],
          [GoodProbe EXCEPT !.is_crosspost = <<TRUE>>],
          [GoodProbe EXCEPT !.isCrosspost = <<TRUE>>],
          [GoodProbe EXCEPT !.commentsFail = TRUE]}

\* the examined post ahead of or behind five fillers, for a quiz or for a
\* replacement that excludes the first fillers
ProbeInit ==
    \E probe \in ProbePosts :
        \E listing \in {<<probe>> \o Fillers(5), Fillers(5) \o <<probe>>, <<probe>>} :
            \/ sel = StartSel("quiz", listing, {})
            \/ \E exclude \in {{}, {"f1", "f2"}, {"p"}} :
                   sel = StartSel("replacement", listing, exclude)

----------------------------------------------------------------------------
(* The rotation selector: getDailySubredditForDate and                      *)
(* getSubredditsInRotationOrder on the two approved lists of the            *)
(* repository.  Time is counted in hours; a date is a day of its year and   *)
(* an hour of that day, and every day of the year has HoursPerDay hours.    *)

\* the approved list of shared/config/subreddits.ts
CONFIG_APPROVED_SUBREDDITS ==
    <<"UnexpectedlySatisfying", "AnimalsBeingJerks", "tea", "HappyAnimals",
      "BrandNewSentence", "AccidentalWesAnderson", "PerfectTiming", "AnimalsBeingConfused",
      "rareinsults", "DIY", "WholesomeComics", "food",
      "Unexpected", "HappyCowGifs", "mildlyinteresting", "ArtisanVideos",
      "AnimalsBeingDerps", "AskReddit", "AccidentalRenaissance", "nextfuckinglevel",
      "coffee", "PointlessStories", "WholesomeMemes", "FirstWorldProblems",
      "cooking", "engrish", "HumansBeingCute", "BuyItForLife",
      "KindVoice", "AnimalsBeingBros", "NoStupidQuestions", "UnexpectedlyWholesome",
      "CrappyDesign", "boardgames", "Showerthoughts", "HappyCrowds",
      "funny", "pareidolia", "lego", "Wellthatsucks",
      "interestingasfuck", "UpliftingNews", "memes", "MadeMeSmile",
      "AnimalsBeingConfused", "UnexpectedCat", "pics", "oddlysatisfying",
      "HumansBeingBros", "UnexpectedGoose">>

\* 1000 * 60 * 60 * 24 milliseconds, in hours
HoursPerDay == 24

\* highest day of the year of a date
MaxDayOfYear == 366

\* the approved list of a module: shared/types/api.ts or shared/config/subreddits.ts
ApprovedListOf(module) ==
    IF module = "types" THEN APPROVED_SUBREDDITS ELSE CONFIG_APPROVED_SUBREDDITS

\* date.getTime() - new Date(date.getFullYear(), 0, 0).getTime(): the time
\* since the start of the last day of the year before
SinceStartOfYear(date) == date.day * HoursPerDay + date.hour

\* variant: Math.ceil in the place of Math.floor
DayOfYearCeil(date) ==
    (SinceStartOfYear(date) + HoursPerDay - 1) \div HoursPerDay

\* dayOfYear = Math.floor(diff / (1000 * 60 * 60 * 24))
DayOfYear(date) == SinceStartOfYear(date) \div HoursPerDay

\* getDailySubredditForDate(date), and getDailySubreddit() when date is now
getDailySubredditForDate(list, date) ==
    LET index == DayOfYear(date) % Len(list)
    IN  list[index + 1]

\* getSubredditsInRotationOrder() when date is now
RotationOrderOn(list, date) ==
    LET dayOfYear == DayOfYear(date) % Len(list)
        startIndex == dayOfYear % Len(list)
    IN  [i \in 1..Len(list) |-> list[((startIndex + (i - 1)) % Len(list)) + 1]]

IdleRot ==
    [pc |-> "idle", module |-> "types", dateA |-> [day |-> 1, hour |-> 0],
     dateB |-> [day |-> 1, hour |-> 0], dailyA |-> None, dailyB |-> None,
     order |-> <<>>]

\* the daily community of two dates
RotDaily ==
    /\ rot.pc = "start"
    /\ rot' = [rot EXCEPT
                 !.pc = "order",
                 !.dailyA = getDailySubredditForDate(ApprovedListOf(rot.module), rot.dateA),
                 !.dailyB = getDailySubredditForDate(ApprovedListOf(rot.module), rot.dateB)]
    /\ UNCHANGED <<storeVars, hist, reportVars, quizVars, sel, adm, adminSecret, moreVars>>

\* the rotation order of the first date
RotOrder ==
    /\ rot.pc = "order"
    /\ rot' = [rot EXCEPT
                 !.pc = "done",
                 !.order = RotationOrderOn(ApprovedListOf(rot.module), rot.dateA)]
    /\ UNCHANGED <<storeVars, hist, reportVars, quizVars, sel, adm, adminSecret, moreVars>>

RotNext == RotDaily \/ RotOrder

\* two dates of one year: the second on the same day, the day after, or as
\* many days later as the list is long
RotDates ==
    \E module \in {"types", "config"} :
      \E dayA \in 1..MaxDayOfYear, hourA \in {0, HoursPerDay - 1}, hourB \in {0, HoursPerDay - 1} :
        \E dayB \in {d \in {dayA, dayA + 1, dayA + Len(ApprovedListOf(module))} :
                        d <= MaxDayOfYear} :
            rot = [IdleRot EXCEPT !.pc = "start", !.module = module,
                                  !.dateA = [day |-> dayA, hour |-> hourA],
                                  !.dateB = [day |-> dayB, hour |-> hourB]]

----------------------------------------------------------------------------
(* The admin endpoints: POST and GET /api/clear-cache, GET                  *)
(* /api/next-subreddit and GET /api/reported-posts, with requireAdminSecret, *)
(* clearCachedQuiz and clearAllQuizCaches.                                   *)

\* number of admin requests of one behaviour
MaxAdminRequests == 2

\* commonSubreddits of clearAllQuizCaches
COMMON_SUBREDDITS ==
    <<"AskReddit", "pics", "todayilearned", "explainlikeimfive", "webdev",
      "Showerthoughts", "LifeProTips", "mildlyinteresting", "gifs">>

AdminEndpoints ==
    {"POST /api/clear-cache", "GET /api/clear-cache",
     "GET /api/next-subreddit", "GET /api/reported-posts"}

ClearEndpoints == {"POST /api/clear-cache", "GET /api/clear-cache"}

\* req.query.key: absent, empty, wrong, or the secret of the deployment
AdminKeys == {<<>>, <<"">>, <<"wrong">>, <<"secret">>}

\* process.env.ADMIN_SECRET: not set, empty, or set
AdminSecrets == {<<>>, <<"">>, <<"secret">>}

\* subreddit of the body or of the query: absent, empty, or a name
ClearParams == {<<>>, <<"">>, <<"funny">>, <<"pics">>}

\* variant: only the comparison of key and secret
requireAdminSecretKeyOnly(secret, key) == key = secret

\* requireAdminSecret: false when !secret || key !== secret
requireAdminSecret(secret, key) ==
    ~(secret = <<>> \/ secret = <<"">> \/ key # secret)

NoAdminResponse == [status |-> 0, message |-> "", body |-> <<>>]

IdleAdm ==
    [pc |-> "idle", n |-> 0, endpoint |-> "GET /api/reported-posts", key |-> <<>>,
     subreddit |-> <<>>, fails |-> FALSE, resp |-> NoAdminResponse]

\* the keys clearCachedQuiz(subreddit) deletes: today's key of the subreddit
ClearedKeys(subreddit) == {getDailyCacheKey(subreddit, <<>>)}

\* the keys clearAllQuizCaches deletes: today's keys of the common subreddits
AllClearedKeys == {getDailyCacheKey(sub, <<>>) : sub \in Range(COMMON_SUBREDDITS)}

\* An admin request arrives: requireAdminSecret answers 401 or lets the
\* handler go on to its first store call.  fails: that store call rejects.
AdminStart(endpoint, key, subreddit, fails) ==
    /\ adm.pc \in {"idle", "done"}
    /\ adm.n < MaxAdminRequests
    /\ adm' = IF ~requireAdminSecret(adminSecret, key)
              THEN [pc |-> "done", n |-> adm.n + 1, endpoint |-> endpoint, key |-> key,
                    subreddit |-> subreddit, fails |-> FALSE,
                    resp |-> [status |-> 401, message |-> "Unauthorized", body |-> <<>>]]
              ELSE [pc |-> IF endpoint \in ClearEndpoints THEN "clear"
                           ELSE IF endpoint = "GET /api/next-subreddit" THEN "next"
                           ELSE "reported",
                    n |-> adm.n + 1, endpoint |-> endpoint, key |-> key,
                    subreddit |-> subreddit, fails |-> fails, resp |-> NoAdminResponse]
    /\ UNCHANGED <<storeVars, hist, reportVars, quizVars, sel, rot, adminSecret, moreVars>>

\* clear-cache after requireAdminSecret: clearCachedQuiz(subreddit) when a
\* subreddit is named, clearAllQuizCaches() otherwise, and the response; a
\* rejected redis.del is rethrown and answered 500
AdminClear ==
    /\ adm.pc = "clear"
    /\ LET named == adm.subreddit # <<>> /\ adm.subreddit # <<"">>
           keys == IF named THEN ClearedKeys(adm.subreddit[1]) ELSE AllClearedKeys
       IN  IF adm.fails
           THEN /\ adm' = [adm EXCEPT !.pc = "done",
                                      !.resp = [status |-> 500, message |-> "error",
                                                body |-> <<>>]]
                /\ UNCHANGED <<cache, hist>>
           ELSE /\ cache' = [key \in CacheKeys |->
                               IF key \in keys THEN None ELSE cache[key]]
                /\ hist' = [hist EXCEPT !.older = [p \in PostIds |-> @[p] \ keys]]
                /\ adm' = [adm EXCEPT
                             !.pc = "done",
                             !.resp = [status |-> 200,
                                       message |-> IF named THEN "Cache cleared for r/"
                                                   ELSE "All quiz caches cleared",
                                       body |-> <<>>]]
    /\ UNCHANGED <<report, replaced, skip, postMeta, today, reportVars, quizVars,
                   sel, rot, adminSecret, moreVars>>

\* next-subreddit after requireAdminSecret: today's and tomorrow's community
AdminNext ==
    /\ adm.pc = "next"
    /\ adm' = [adm EXCEPT
                 !.pc = "done",
                 !.resp = [status |-> 200, message |-> "",
                           body |-> <<getDailySubreddit(TEST_SUBREDDIT, today),
                                      getDailySubredditForDate(Approved,
                                          [day |-> today + 1, hour |-> 0])>>]]
    /\ UNCHANGED <<storeVars, hist, reportVars, quizVars, sel, rot, adminSecret, moreVars>>

\* reported-posts after requireAdminSecret: await getReplacedPostIds() and the
\* response; a rejected redis.get is answered 500
AdminReported ==
    /\ adm.pc = "reported"
    /\ adm' = [adm EXCEPT
                 !.pc = "done",
                 !.resp = IF adm.fails
                          THEN [status |-> 500, message |-> "Failed to load reported posts.",
                                body |-> <<>>]
                          ELSE [status |-> 200, message |-> "", body |-> replaced]]
    /\ UNCHANGED <<storeVars, hist, reportVars, quizVars, sel, rot, adminSecret, moreVars>>

AdminRequests ==
    \/ \E endpoint \in AdminEndpoints, key \in AdminKeys, fails \in BOOLEAN :
          \E subreddit \in (IF endpoint \in ClearEndpoints THEN ClearParams ELSE {<<>>}) :
              AdminStart(endpoint, key, subreddit, fails)
    \/ AdminClear
    \/ AdminNext
    \/ AdminReported

\* the quizzes that may be cached when the admin requests arrive: the quiz of
\* today of funny and of pics, and the quiz of another day of pics
CachedBefore(keys) ==
    [key \in CacheKeys |->
        IF key \in keys THEN SubSeq(FeedOf(key[1]), 1, QUIZ_SIZE) ELSE None]

\* nothing but the quiz and report endpoints is in use
OtherIdle ==
    /\ sel = IdleSel
    /\ rot = IdleRot
    /\ adm = IdleAdm
    /\ adminSecret = <<"secret">>

----------------------------------------------------------------------------
(* The quiz cache of quizCache.ts: cacheQuiz stores JSON.stringify(quizData) *)
(* and getCachedQuiz returns JSON.parse of the stored text.  A JavaScript    *)
(* value is a tagged tuple, an object the sequence of its own properties in  *)
(* insertion order; a JSON text is the sequence of its tokens.               *)

JsString(s) == <<"string", s>>
JsNumber(n) == <<"number", n>>
JsBoolean(b) == <<"boolean", b>>
JsNull == <<"null">>
JsUndefined == <<"undefined">>
JsArray(elements) == <<"array", elements>>
JsObject(properties) == <<"object", properties>>

\* a string value when the string is truthy, undefined otherwise
Truthy(s) == s # ""

RECURSIVE JSONStringify(_)
RECURSIVE StringifyElements(_, _)
RECURSIVE StringifyProperties(_, _)

\* JSON.stringify of the elements from the i-th on: undefined becomes null
StringifyElements(elements, i) ==
    IF i > Len(elements) THEN <<>>
    ELSE (IF elements[i] = JsUndefined THEN <<JsNull>> ELSE JSONStringify(elements[i]))
         \o StringifyElements(elements, i + 1)

\* JSON.stringify of the properties from the i-th on: a property whose value
\* is undefined is left out
StringifyProperties(properties, i) ==
    IF i > Len(properties) THEN <<>>
    ELSE (IF properties[i][2] = JsUndefined THEN <<>>
          ELSE <<<<"key", properties[i][1]>>>> \o JSONStringify(properties[i][2]))
         \o StringifyProperties(properties, i + 1)

\* JSON.stringify(value): the tokens of the text
JSONStringify(value) ==
    CASE value[1] = "array" ->
            <<<<"[">>>> \o StringifyElements(value[2], 1) \o <<<<"]">>>>
      [] value[1] = "object" ->
            <<<<"{">>>> \o StringifyProperties(value[2], 1) \o <<<<"}">>>>
      [] OTHER -> <<value>>

RECURSIVE ParseValue(_, _)
RECURSIVE ParseElements(_, _, _)
RECURSIVE ParseProperties(_, _, _)

\* the elements of an array up to its closing bracket
ParseElements(text, i, elements) ==
    IF text[i][1] = "]" THEN [value |-> JsArray(elements), next |-> i + 1]
    ELSE LET element == ParseValue(text, i)
         IN  ParseElements(text, element.next, Append(elements, element.value))

\* the properties of an object up to its closing brace
ParseProperties(text, i, properties) ==
    IF text[i][1] = "}" THEN [value |-> JsObject(properties), next |-> i + 1]
    ELSE LET property == ParseValue(text, i + 1)
         IN  ParseProperties(text, property.next,
                             Append(properties, <<text[i][2], property.value>>))

\* the value that starts at the i-th token, and the index after it
ParseValue(text, i) ==
    CASE text[i][1] = "[" -> ParseElements(text, i + 1, <<>>)
      [] text[i][1] = "{" -> ParseProperties(text, i + 1, <<>>)
      [] OTHER -> [value |-> text[i], next |-> i + 1]

\* JSON.parse(text)
JSONParse(text) == ParseValue(text, 1).value

\* { id, body, ups, author } of a comment
QuizCommentObject(comment) ==
    JsObject(<<
        <<"id", JsString(comment.id)>>,
        <<"body", JsString(comment.body)>>,
        <<"ups", JsNumber(comment.ups)>>,
        <<"author", IF comment.author = <<>> THEN JsNull ELSE JsString(comment.author[1])>> >>)

\* permalink.startsWith('http') on the permalinks the model feeds in
AbsoluteLinks == {"https://www.reddit.com/r/funny/comments/x"}

\* ...(condition && { name: value }): the property, or nothing
Spread(condition, name, value) == IF condition THEN << <<name, value>> >> ELSE <<>>

\* variant: the optional properties are always written, undefined when the
\* post has none
QuizQuestionObjectAllKeys(post, comments, imageUrls, videoUrl, videoEmbedUrl) ==
    JsObject(
        << <<"postId", JsString(post.id)>>, <<"title", JsString(post.title)>>,
           <<"selftext", IF Truthy(post.selftext) THEN JsString(post.selftext)
                         ELSE JsUndefined>>,
           <<"url", IF Truthy(post.url) THEN JsString(post.url) ELSE JsUndefined>>,
           <<"imageUrl", IF Len(imageUrls) > 0 THEN JsString(imageUrls[1])
                         ELSE JsUndefined>>,
           <<"imageUrls", IF Len(imageUrls) > 0
                          THEN JsArray([i \in 1..Len(imageUrls) |-> JsString(imageUrls[i])])
                          ELSE JsUndefined>>,
           <<"isVideo", JsBoolean(post.is_video \/ Truthy(videoUrl) \/ Truthy(videoEmbedUrl))>>,
           <<"videoUrl", IF Truthy(videoUrl) THEN JsString(videoUrl) ELSE JsUndefined>>,
           <<"videoEmbedUrl", IF Truthy(videoEmbedUrl) THEN JsString(videoEmbedUrl)
                              ELSE JsUndefined>>,
           <<"author", IF post.author = <<>> THEN JsNull ELSE JsString(post.author[1])>>,
           <<"permalink", JsString(IF post.permalink \in AbsoluteLinks THEN post.permalink
                                   ELSE "https://www.reddit.com" \o post.permalink)>>,
           <<"comments", JsArray([i \in 1..Len(Slice(comments, TOP_COMMENTS)) |->
                                     QuizCommentObject(comments[i])])>> >>)

\* the quizQuestion object of transformToQuizFormat, with every property it
\* writes; imageUrls, videoUrl and videoEmbedUrl are what extractImageUrls
\* and extractVideoUrls found in the post
QuizQuestionObject(post, comments, imageUrls, videoUrl, videoEmbedUrl) ==
    JsObject(
        << <<"postId", JsString(post.id)>>, <<"title", JsString(post.title)>> >>
        \o Spread(Truthy(post.selftext), "selftext", JsString(post.selftext))
        \o Spread(Truthy(post.url), "url", JsString(post.url))
        \o Spread(Len(imageUrls) > 0 /\ Truthy(imageUrls[1]), "imageUrl",
                  IF Len(imageUrls) > 0 THEN JsString(imageUrls[1]) ELSE JsUndefined)
        \o Spread(Len(imageUrls) > 0, "imageUrls",
                  JsArray([i \in 1..Len(imageUrls) |-> JsString(imageUrls[i])]))
        \o << <<"isVideo", JsBoolean(post.is_video \/ Truthy(videoUrl)
                                     \/ Truthy(videoEmbedUrl))>> >>
        \o Spread(Truthy(videoUrl), "videoUrl", JsString(videoUrl))
        \o Spread(Truthy(videoEmbedUrl), "videoEmbedUrl", JsString(videoEmbedUrl))
        \o << <<"author", IF post.author = <<>> THEN JsNull ELSE JsString(post.author[1])>>,
              <<"permalink", JsString(IF post.permalink \in AbsoluteLinks THEN post.permalink
                                      ELSE "https://www.reddit.com" \o post.permalink)>>,
              <<"comments", JsArray([i \in 1..Len(Slice(comments, TOP_COMMENTS)) |->
                                        QuizCommentObject(comments[i])])>> >>)

\* The posts a quiz is made of: a text post, an image post with one or two
\* images, a video post, a link post of a deleted author whose permalink is
\* absolute.
QuestionKinds == <<"text", "image", "video", "link">>

CachedPost(kind, i) ==
    [id |-> FeedOf("funny")[i], title |-> "title",
     selftext |-> IF kind = "text" THEN "body" ELSE "",
     url |-> IF kind = "text" THEN "" ELSE "https://i.redd.it/a.png",
     author |-> IF kind = "link" THEN <<>> ELSE <<"alice">>,
     permalink |-> IF kind = "link" THEN "https://www.reddit.com/r/funny/comments/x"
                   ELSE "/r/funny/comments/x",
     is_video |-> kind = "video"]

CachedComments(kind) ==
    [i \in 1..TOP_COMMENTS |->
        [id |-> "c", body |-> "reply", ups |-> TOP_COMMENTS + 1 - i,
         author |-> IF kind = "link" /\ i = 1 THEN <<>> ELSE <<"bob">>]]

CachedQuestion(kind, i) ==
    QuizQuestionObject(CachedPost(kind, i), CachedComments(kind),
                       CASE kind = "image" -> IF i % 2 = 0 THEN <<"a.png">>
                                              ELSE <<"a.png", "b.png">>
                         [] OTHER -> <<>>,
                       IF kind = "video" /\ i % 2 = 0 THEN "v.mp4" ELSE "",
                       IF kind = "video" /\ i % 2 = 1 THEN "embed" ELSE "")

\* the quiz whose i-th question is of the kind at position i + shift
CachedQuiz(shift) ==
    JsArray([i \in 1..QUIZ_SIZE |->
                CachedQuestion(QuestionKinds[((i + shift) % Len(QuestionKinds)) + 1], i)])

\* written, at: per key the quizData of the last cacheQuiz whose redis.set
\* succeeded and the time of that call, <<>> when the key was deleted or
\* has expired since, or was never written;
\* key, got: the key and the return value of the last getCachedQuiz
IdleCq == [written |-> [key \in CacheKeys |-> <<>>],
           at |-> [key \in CacheKeys |-> <<>>], key |-> <<>>, got |-> <<>>]

\* expiration.setDate(expiration.getDate() + 30)
EXPIRATION_DAYS == 30

\* no entry has an expiration
NoExpiry == [quiz |-> [key \in CacheKeys |-> 0], meta |-> [p \in {} |-> 0]]

\* variant: a key that is rewritten keeps the expiration of its first write
CacheQuizCallKeepExpiry(subreddit, quizData, date, fail) ==
    /\ LET cacheKey == getDailyCacheKey(subreddit, date)
       IN  IF fail
           THEN /\ cq' = [cq EXCEPT !.key = <<>>, !.got = <<>>]
                /\ UNCHANGED <<cache, expiry>>
           ELSE /\ cache' = [cache EXCEPT ![cacheKey] = JSONStringify(quizData)]
                /\ expiry' = [expiry EXCEPT !.quiz[cacheKey] =
                                 IF @ = 0 THEN now + EXPIRATION_DAYS ELSE @]
                /\ cq' = [cq EXCEPT !.written[cacheKey] = <<quizData>>,
                                    !.at[cacheKey] = <<now>>,
                                    !.key = <<>>, !.got = <<>>]
    /\ UNCHANGED <<report, replaced, skip, postMeta, today, hist, reportVars, quizVars,
                   otherVars, exceptCq>>

\* cacheQuiz(subreddit, quizData, date): the entry expires 30 days from now;
\* a failure of redis.set is logged
CacheQuizCall(subreddit, quizData, date, fail) ==
    /\ LET cacheKey == getDailyCacheKey(subreddit, date)
           expiration == now + EXPIRATION_DAYS
       IN  IF fail
           THEN /\ cq' = [cq EXCEPT !.key = <<>>, !.got = <<>>]
                /\ UNCHANGED <<cache, expiry>>
           ELSE /\ cache' = [cache EXCEPT ![cacheKey] = JSONStringify(quizData)]
                /\ expiry' = [expiry EXCEPT !.quiz[cacheKey] = expiration]
                /\ cq' = [cq EXCEPT !.written[cacheKey] = <<quizData>>,
                                    !.at[cacheKey] = <<now>>,
                                    !.key = <<>>, !.got = <<>>]
    /\ UNCHANGED <<report, replaced, skip, postMeta, today, hist, reportVars, quizVars,
                   otherVars, exceptCq>>

\* getCachedQuiz(subreddit, date): null when nothing is stored under the key
GetCachedQuizCall(subreddit, date) ==
    /\ LET cacheKey == getDailyCacheKey(subreddit, date)
           cachedData == cache[cacheKey]
       IN  cq' = [cq EXCEPT !.key = <<cacheKey>>,
                           !.got = <<IF cachedData = None THEN JsNull
                                     ELSE JSONParse(cachedData)>>]
    /\ UNCHANGED <<storeVars, hist, reportVars, quizVars, otherVars, exceptCq, expiry>>

\* clearCachedQuiz(subreddit, date)
ClearCachedQuizCall(subreddit, date) ==
    /\ LET cacheKey == getDailyCacheKey(subreddit, date)
       IN  /\ cache' = [cache EXCEPT ![cacheKey] = None]
           /\ expiry' = [expiry EXCEPT !.quiz[cacheKey] = 0]
           /\ cq' = [cq EXCEPT !.written[cacheKey] = <<>>, !.at[cacheKey] = <<>>,
                               !.key = <<>>, !.got = <<>>]
    /\ UNCHANGED <<report, replaced, skip, postMeta, today, hist, reportVars, quizVars,
                   otherVars, exceptCq>>

\* the subreddits and dates of the cache calls: today's quiz or a dated one
CacheDates == {<<>>, <<0>>, <<1>>}

\* calls of the quiz cache one after another
CacheNext ==
    \E subreddit \in ExplicitSubreddits \cup CommonSubreddits, date \in CacheDates :
        \/ \E shift \in 1..Len(QuestionKinds), fail \in BOOLEAN :
               CacheQuizCall(subreddit, CachedQuiz(shift), date, fail)
        \/ GetCachedQuizCall(subreddit, date)
        \/ ClearCachedQuizCall(subreddit, date)

----------------------------------------------------------------------------
(* GET /api/daily-subreddit, and the quiz endpoint called from a post *)

IdleDs == [pc |-> "idle", postId |-> None, resp |-> <<>>]

\* res.json({ subreddit, date, isHistorical })
DailySubredditResponse(subreddit, date, isHistorical) ==
    <<[subreddit |-> subreddit, date |-> date, isHistorical |-> isHistorical]>>

\* the default: today's subreddit
TodaysSubredditResponse ==
    DailySubredditResponse(getDailySubreddit(TEST_SUBREDDIT, today), today, FALSE)

\* the handler up to await redis.get(postMetaKey); without postId, to its end
DailySubredditStart ==
    /\ ds.pc \in {"idle", "done"}
    /\ \E postId \in {None, ""} \cup PostIds :
         ds' = IF postId # None /\ postId # ""
               THEN [pc |-> "meta", postId |-> postId, resp |-> <<>>]
               ELSE [pc |-> "done", postId |-> postId, resp |-> TodaysSubredditResponse]
    /\ UNCHANGED <<storeVars, hist, reportVars, quizVars, otherVars, exceptDs>>

\* after redis.get(postMetaKey): the post's subreddit and date, or when
\* there is no metadata or it does not parse, today's subreddit
DailySubredditMeta ==
    /\ ds.pc = "meta"
    /\ LET postMetaData == postMeta[ds.postId]
       IN  ds' = [ds EXCEPT !.pc = "done", !.resp =
                 IF postMetaData # <<>> /\ ParsePostMeta(postMetaData) # <<>>
                 THEN DailySubredditResponse(ParsePostMeta(postMetaData)[1].subreddit,
                                             ParsePostMeta(postMetaData)[1].date, TRUE)
                 ELSE TodaysSubredditResponse]
    /\ UNCHANGED <<storeVars, hist, reportVars, quizVars, otherVars, exceptDs>>

\* number of quiz requests of one behaviour with requests from posts
MaxMetaRequests == 2

\* the content source when every listing yields the posts 1..5 of the feed
SteadyAnswers(c) ==
    [kind : {"ok"}, msg : {MsgOther}, any : {TRUE}, ranked : {SubSeq(FeedOf(c), 1, 5)}]

\* requests from a post and from elsewhere, with and without a subreddit and
\* a date of their own; every listing succeeds
MetaEnv ==
    [subreddits |-> {None} \cup ExplicitSubreddits, dates |-> DateParams,
     postIds |-> {None} \cup PostIds,
     answers |-> [c \in Communities |-> SteadyAnswers(c)],
     fails |-> {FALSE}, history |-> FALSE, limit |-> MaxMetaRequests]

\* quiz and daily-subreddit requests one at a time, while posts are published
\* and days pass
MetaNext ==
    \/ QuizStart(1, MetaEnv)
    \/ QuizPostMeta(1, MetaEnv)
    \/ QuizSkipCheck(1, MetaEnv)
    \/ QuizCacheGet(1, MetaEnv)
    \/ QuizFetch(1, MetaEnv)
    \/ QuizCacheSet(1, MetaEnv)
    \/ QuizReplacedGet(1, MetaEnv)
    \/ DailySubredditStart
    \/ DailySubredditMeta
    \/ \E p \in PostIds : CreatePost(p)
    \/ NextDay

----------------------------------------------------------------------------
(* Rotation-mode requests that overlap while subreddits are unavailable *)

\* number of quiz requests of one behaviour with overlapping skip-list writes
MaxSkipRequests == 2

\* requests in rotation mode; a listing is refused or yields the posts 1..5
SkipEnv ==
    [subreddits |-> {None}, dates |-> {<<>>}, postIds |-> {None},
     answers |-> [c \in Communities |-> FailAnswers(c)],
     fails |-> {FALSE}, history |-> FALSE, limit |-> MaxSkipRequests]

\* overlapping quiz requests, each await of one request may be followed by
\* steps of the other (no post is replaced)
SkipNext ==
    \E s \in QuizSlots :
        \/ QuizStart(s, SkipEnv)
        \/ QuizSkipCheck(s, SkipEnv)
        \/ QuizCacheGet(s, SkipEnv)
        \/ QuizFetch(s, SkipEnv)
        \/ QuizCacheSet(s, SkipEnv)
        \/ QuizReplacedGet(s, SkipEnv)
        \/ QuizSkipListGet(s, SkipEnv)
        \/ QuizSkipListSet(s, SkipEnv)

----------------------------------------------------------------------------
(* POST /internal/scheduled/daily-post and createPost, step by step; the    *)
(* clock and the expiration of entries                                       *)

\* concurrent invocations of the scheduled handler
DailySlots == {1, 2}

\* number of invocations of the handler in one behaviour
MaxDailyInvocations == 3

\* post.id of the n-th post reddit.submitCustomPost creates
NewPostId(n) == CASE n = 1 -> "p1" [] n = 2 -> "p2" [] n = 3 -> "p3" [] OTHER -> "p4"

NewPosts == {NewPostId(n) : n \in 1..MaxDailyInvocations}

\* the clock advances by TickDays days at a time, up to MaxNow
TickDays == 15
MaxNow == 45

\* the dates daily_post keys are made of
DailyDates == 1..(MaxDay + MaxNow)

IdleDp == [pc |-> "idle", today |-> 0, dailySubreddit |-> None, postId |-> None,
           postMetaDate |-> 0, status |-> 0, created |-> FALSE]

\* res.status(500).json(...) of the handler's catch
DailyPostFailed(rec) == [rec EXCEPT !.pc = "done", !.status = 500]

\* the handler up to await redis.get(cacheKey)
DailyPostStart(s) ==
    /\ dp[s].pc \in {"idle", "done"}
    /\ nDaily < MaxDailyInvocations
    /\ nDaily' = nDaily + 1
    /\ dp' = [dp EXCEPT ![s] =
                [IdleDp EXCEPT !.pc = "get", !.today = today,
                               !.dailySubreddit = getDailySubreddit(TEST_SUBREDDIT, today)]]
    /\ UNCHANGED <<storeVars, hist, reportVars, quizVars, otherVars, exceptDp,
                   dailyPost, submitted, expiry>>

\* const existingPost = await redis.get(cacheKey): the post of today, or
\* createPost(dailySubreddit) up to await reddit.submitCustomPost
DailyPostGet(s, fails) ==
    /\ dp[s].pc = "get"
    /\ \E fail \in fails :
         LET existingPost == dailyPost[dp[s].today]
         IN  dp' = [dp EXCEPT ![s] =
                 IF fail THEN DailyPostFailed(dp[s])
                 ELSE IF existingPost # None
                 THEN [dp[s] EXCEPT !.pc = "done", !.status = 200, !.postId = existingPost]
                 ELSE [dp[s] EXCEPT !.pc = "submit", !.postMetaDate = today]]
    /\ UNCHANGED <<storeVars, hist, reportVars, quizVars, otherVars, exceptDp,
                   dailyPost, submitted, nDaily, expiry>>

\* const post = await reddit.submitCustomPost(...), then reddit.approve whose
\* failure is logged, up to await redis.set(postMetaKey, ...)
CreatePostSubmit(s, fails) ==
    /\ dp[s].pc = "submit"
    /\ \E fail \in fails :
         IF fail
         THEN /\ dp' = [dp EXCEPT ![s] = DailyPostFailed(dp[s])]
              /\ UNCHANGED submitted
         ELSE /\ submitted' = Append(submitted,
                     [id |-> NewPostId(Len(submitted) + 1), today |-> today, at |-> now])
              /\ dp' = [dp EXCEPT ![s].pc = "meta",
                                  ![s].postId = NewPostId(Len(submitted) + 1)]
    /\ UNCHANGED <<storeVars, hist, reportVars, quizVars, otherVars, exceptDp,
                   dailyPost, nDaily, expiry>>

\* await redis.set(postMetaKey, JSON.stringify(postMeta), { expiration }), then
\* the handler up to await redis.set(cacheKey, post.id, ...); a rejection
\* leaves createPost and reaches the handler's catch
CreatePostSetMeta(s, fails) ==
    /\ dp[s].pc = "meta"
    /\ \E fail \in fails :
         IF fail
         THEN /\ dp' = [dp EXCEPT ![s] = DailyPostFailed(dp[s])]
              /\ UNCHANGED <<postMeta, expiry>>
         ELSE /\ postMeta' = [postMeta EXCEPT ![dp[s].postId] =
                     <<[date |-> dp[s].postMetaDate, subreddit |-> dp[s].dailySubreddit]>>]
              /\ expiry' = [expiry EXCEPT !.meta[dp[s].postId] = now + EXPIRATION_DAYS]
              /\ dp' = [dp EXCEPT ![s].pc = "set"]
    /\ UNCHANGED <<report, replaced, skip, cache, today, hist, reportVars, quizVars,
                   otherVars, exceptDp, dailyPost, submitted, nDaily>>

\* await redis.set(cacheKey, post.id, { expiration: midnight }) and the response
DailyPostSet(s, fails) ==
    /\ dp[s].pc = "set"
    /\ \E fail \in fails :
         IF fail
         THEN /\ dp' = [dp EXCEPT ![s] = DailyPostFailed(dp[s])]
              /\ UNCHANGED dailyPost
         ELSE /\ dailyPost' = [dailyPost EXCEPT ![dp[s].today] = dp[s].postId]
              /\ dp' = [dp EXCEPT ![s].pc = "done", ![s].status = 200,
                                  ![s].created = TRUE]
    /\ UNCHANGED <<storeVars, hist, reportVars, quizVars, otherVars, exceptDp,
                   submitted, nDaily, expiry>>

\* one step of invocation s
DailyPostStep(s, fails) ==
    \/ DailyPostStart(s)
    \/ DailyPostGet(s, fails)
    \/ CreatePostSubmit(s, fails)
    \/ CreatePostSetMeta(s, fails)
    \/ DailyPostSet(s, fails)

\* midnight: the date changes and the daily_post key of the day has expired
Midnight ==
    /\ today < MaxDay
    /\ today' = today + 1
    /\ dailyPost' = [d \in DailyDates |-> None]
    /\ UNCHANGED <<report, replaced, skip, cache, postMeta, hist, reportVars, quizVars,
                   otherVars, cq, ds, dp, submitted, nDaily, now, expiry, reporters>>

\* invocations of the scheduled handler that may overlap, over a store whose
\* calls may fail
DailyNext ==
    \/ \E s \in DailySlots : DailyPostStep(s, BOOLEAN)
    \/ Midnight

\* TickDays days pass while no request is running: the entries whose
\* expiration is reached are gone, and so is the daily_post key
Tick ==
    /\ now + TickDays <= MaxNow
    /\ \A s \in DailySlots : dp[s].pc \in {"idle", "done"}
    /\ ds.pc \in {"idle", "done"}
    /\ now' = now + TickDays
    /\ today' = today + TickDays
    /\ dailyPost' = [d \in DailyDates |-> None]
    /\ LET gone == {key \in CacheKeys : 0 < expiry.quiz[key] /\ expiry.quiz[key] <= now'}
           lost == {p \in NewPosts : 0 < expiry.meta[p] /\ expiry.meta[p] <= now'}
       IN  /\ cache' = [key \in CacheKeys |-> IF key \in gone THEN None ELSE cache[key]]
           /\ postMeta' = [p \in NewPosts |-> IF p \in lost THEN <<>> ELSE postMeta[p]]
           /\ expiry' = [quiz |-> [key \in CacheKeys |->
                                      IF key \in gone THEN 0 ELSE expiry.quiz[key]],
                         meta |-> [p \in NewPosts |->
                                      IF p \in lost THEN 0 ELSE expiry.meta[p]]]
           /\ cq' = [cq EXCEPT !.written = [key \in CacheKeys |->
                                               IF key \in gone THEN <<>> ELSE @[key]],
                               !.at = [key \in CacheKeys |->
                                          IF key \in gone THEN <<>> ELSE @[key]],
                               !.key = <<>>, !.got = <<>>]
    /\ UNCHANGED <<report, replaced, skip, hist, reportVars, quizVars, otherVars,
                   ds, dp, submitted, nDaily, reporters>>

\* the dated quizzes the cache calls of ExpiryNext are about
ExpiryDates == {<<0>>, <<1>>}

\* cache writes of dated quizzes, a post published by the handler
\* and read by the daily-subreddit endpoint, while the days pass
ExpiryNext ==
    \/ \E date \in ExpiryDates : CacheQuizCall("funny", CachedQuiz(1), date, FALSE)
    \/ DailyPostStep(1, {FALSE})
    \/ DailySubredditStart
    \/ DailySubredditMeta
    \/ Tick

\* the store and the handler before the first invocation
DailyIdle ==
    /\ dailyPost = [d \in DailyDates |-> None]
    /\ dp = [s \in DailySlots |-> IdleDp]
    /\ submitted = <<>>
    /\ nDaily = 0
    /\ now = 0

\* no call of the later sections is in flight
MoreIdle ==
    /\ cq = IdleCq
    /\ ds = IdleDs
    /\ DailyIdle
    /\ expiry = NoExpiry
    /\ reporters = [p \in AllPostIds |-> {}]

----------------------------------------------------------------------------
(* Initial states and specifications *)

\* nothing stored, nothing in flight
EmptyInit ==
    /\ report = [p \in AllPostIds |-> <<>>]
    /\ replaced = <<>>
    /\ skip = <<>>
    /\ cache = [key \in CacheKeys |-> None]
    /\ postMeta = [p \in PostIds |-> <<>>]
    /\ hist = NoHistory
    /\ rc = [s \in ReportSlots |-> IdleCall]
    /\ nReports = 0
    /\ anonDone = [p \in AllPostIds |-> 0]
    /\ q = [s \in QuizSlots |-> IdleQuiz]
    /\ nQuiz = 0
    /\ MoreIdle

ReportInit == EmptyInit /\ today = 1 /\ OtherIdle

\* The posts at positions 1, 2 and 6 of every feed may have been reported three
\* times before the behaviour starts: the replaced list holds the posts at the
\* positions of one of these lists.
FlaggedPositions == {<<>>, <<1, 2>>, <<1, 2, 6>>}

CommunityList == Approved \o <<"funny">>

FlaggedPosts(positions) ==
    [n \in 1..(Len(CommunityList) * Len(positions)) |->
        FeedOf(CommunityList[((n - 1) \div Len(positions)) + 1])
              [positions[((n - 1) % Len(positions)) + 1]]]

QuizInit ==
    /\ today \in 1..MaxDay
    /\ \E positions \in FlaggedPositions :
         /\ replaced = FlaggedPosts(positions)
         /\ report = [p \in AllPostIds |->
                        IF Includes(FlaggedPosts(positions), p)
                        THEN <<"__anon_1", "__anon_1", "__anon_1">> ELSE <<>>]
    /\ skip = <<>>
    /\ cache = [key \in CacheKeys |-> None]
    /\ postMeta = [p \in PostIds |-> <<>>]
    /\ hist = NoHistory
    /\ rc = [s \in ReportSlots |-> IdleCall]
    /\ nReports = 0
    /\ anonDone = [p \in AllPostIds |-> 0]
    /\ q = [s \in QuizSlots |-> IdleQuiz]
    /\ nQuiz = 0
    /\ MoreIdle
    /\ OtherIdle

\* the first day, some posts flagged
ExplicitInit == QuizInit /\ today = 1

\* a call of fetchQuizData or getReplacementQuestion on some listing
SelectInit ==
    /\ EmptyInit
    /\ today = 1
    /\ (CommentInit \/ FeedInit \/ ProbeInit)
    /\ rot = IdleRot
    /\ adm = IdleAdm
    /\ adminSecret = <<"secret">>

\* an evaluation of the rotation selector for two dates
RotInit ==
    /\ EmptyInit
    /\ today = 1
    /\ sel = IdleSel
    /\ RotDates
    /\ adm = IdleAdm
    /\ adminSecret = <<"secret">>

\* admin requests: some posts flagged, some quizzes cached, a secret
\* configured or not
AdminInit ==
    /\ today \in 1..MaxDay
    /\ replaced = FlaggedPosts(<<1, 2>>)
    /\ report = [p \in AllPostIds |->
                   IF Includes(replaced, p)
                   THEN <<"__anon_1", "__anon_1", "__anon_1">> ELSE <<>>]
    /\ skip = <<>>
    /\ \E keys \in SUBSET {<<"funny", today>>, <<"pics", today>>,
                            <<"pics", (today % MaxDay) + 1>>} :
          cache = CachedBefore(keys)
    /\ postMeta = [p \in PostIds |-> <<>>]
    /\ hist = NoHistory
    /\ rc = [s \in ReportSlots |-> IdleCall]
    /\ nReports = 0
    /\ anonDone = [p \in AllPostIds |-> 0]
    /\ q = [s \in QuizSlots |-> IdleQuiz]
    /\ nQuiz = 0
    /\ MoreIdle
    /\ sel = IdleSel
    /\ rot = IdleRot
    /\ adm = IdleAdm
    /\ adminSecret \in AdminSecrets

\* the first day, nothing cached; the store holds no metadata of the post, or
\* under its key a text that is no JSON (the store is written by createPost
\* alone, and read as whatever it holds)
MetaInit ==
    /\ report = [p \in AllPostIds |-> <<>>]
    /\ replaced = <<>>
    /\ skip = <<>>
    /\ cache = [key \in CacheKeys |-> None]
    /\ postMeta \in [PostIds -> {<<>>, UnparseableMeta}]
    /\ hist = NoHistory
    /\ rc = [s \in ReportSlots |-> IdleCall]
    /\ nReports = 0
    /\ anonDone = [p \in AllPostIds |-> 0]
    /\ q = [s \in QuizSlots |-> IdleQuiz]
    /\ nQuiz = 0
    /\ MoreIdle
    /\ today = 1
    /\ OtherIdle

\* nothing stored; the posts the handler will publish have no metadata yet
DailyInit ==
    /\ report = [p \in AllPostIds |-> <<>>]
    /\ replaced = <<>>
    /\ skip = <<>>
    /\ cache = [key \in CacheKeys |-> None]
    /\ postMeta = [p \in NewPosts |-> <<>>]
    /\ hist = NoHistory
    /\ rc = [s \in ReportSlots |-> IdleCall]
    /\ nReports = 0
    /\ anonDone = [p \in AllPostIds |-> 0]
    /\ q = [s \in QuizSlots |-> IdleQuiz]
    /\ nQuiz = 0
    /\ cq = IdleCq
    /\ ds = IdleDs
    /\ DailyIdle
    /\ expiry = [quiz |-> [key \in CacheKeys |-> 0], meta |-> [p \in NewPosts |-> 0]]
    /\ reporters = [p \in AllPostIds |-> {}]
    /\ today = 1
    /\ OtherIdle

Init ==
    \/ ReportInit \/ QuizInit \/ SelectInit \/ RotInit \/ AdminInit \/ MetaInit
    \/ DailyInit

Next ==
    \/ ReportNext \/ ReportSeqNext \/ QuizNext
    \/ PostNext \/ ExplicitNext \/ ParNext \/ FailNext
    \/ SelectNext \/ RotNext \/ AdminRequests
    \/ CacheNext \/ MetaNext \/ DailyNext \/ ExpiryNext
    \/ SkipNext \/ ReportNamedNext \/ SubstNext

Spec == Init /\ [][Next]_vars

\* the report tracker, requests one at a time
SpecReportSeq == ReportInit /\ [][ReportSeqNext]_vars

\* the report tracker, requests overlapping
SpecReport == ReportInit /\ [][ReportNext]_vars

\* the report tracker, requests of named reporters overlapping
SpecReportNamed == ReportInit /\ [][ReportNamedNext]_vars

\* the quiz endpoint, requests one at a time
SpecQuiz == QuizInit /\ [][QuizNext]_vars

\* the quiz endpoint with published posts, requests one at a time
SpecPost == ReportInit /\ [][PostNext]_vars

\* the quiz endpoint, explicit and rotation mode, requests one at a time
SpecExplicit == ExplicitInit /\ [][ExplicitNext]_vars

\* quiz requests one at a time for the keys of one day, the quizzes served
\* being recorded
SpecSubst == ExplicitInit /\ [][SubstNext]_vars

\* the quiz endpoint, requests overlapping
SpecQuizPar == ReportInit /\ [][ParNext]_vars

\* the quiz endpoint over a failing store, requests one at a time
SpecQuizFail == ReportInit /\ [][FailNext]_vars

\* the content filter and ranker on a listing
SpecSelect == SelectInit /\ [][SelectNext]_vars

\* the rotation selector on two dates
SpecRotation == RotInit /\ [][RotNext]_vars

\* the admin endpoints, requests one at a time
SpecAdmin == AdminInit /\ [][AdminRequests]_vars

\* the quiz cache, calls one at a time
SpecCache == ReportInit /\ [][CacheNext]_vars

\* requests from posts, one at a time
SpecMeta == MetaInit /\ [][MetaNext]_vars

\* the quiz endpoint in rotation mode, requests overlapping
SpecSkip == ReportInit /\ [][SkipNext]_vars

\* the scheduled daily-post handler, invocations overlapping
SpecDaily == DailyInit /\ [][DailyNext]_vars

\* the expiration of quiz and metadata entries
SpecExpiry == DailyInit /\ [][ExpiryNext]_vars

----------------------------------------------------------------------------
(* The report tracker: C1 .. C4 *)

\* the ids of reporters that name themselves
NamedIds == {"u1", "u2", "u3", "__anon_x"}

\* C1: when report calls arrive one after another, every post whose stored
\* report record holds 3 or more reporter ids is in the replaced list once the
\* call that reached the threshold has completed (no call is in flight).
C1_ThresholdReplaces ==
    rc[1].pc = "idle" =>
        \A p \in AllPostIds : Len(report[p]) >= 3 => Includes(replaced, p)

\* C1 witness: three distinct named reporters have reported a1, the third call
\* has completed and a1 is in the replaced list.
C1_Witness ==
    /\ rc[1].pc = "idle"
    /\ Len(report["a1"]) = 3
    /\ Range(report["a1"]) = {"u1", "u2", "u3"}
    /\ Includes(replaced, "a1")

\* C2: a post id that is in the replaced list stays in it over every step of
\* every interleaving of report calls.
C2_ReplacedIsTerminal ==
    [][\A p \in AllPostIds : Includes(replaced, p) => Includes(replaced', p)]_vars

\* C3: a reporter that names itself counts once per post: no id a reporter
\* gave itself occurs twice in a stored report record, so that the count is at
\* most the number of distinct named reporters plus the anonymous reports.
C3_NamedReporterCountsOnce ==
    \A p \in AllPostIds : \A i, j \in DOMAIN report[p] :
        (i # j /\ report[p][i] = report[p][j]) => report[p][i] \notin NamedIds

\* between calls the count of a post is at least the number of anonymous calls
\* completed for it, and a post with three of them is in the replaced list
AnonymousCallsCounted ==
    rc[1].pc = "idle" =>
        \A p \in AllPostIds :
            /\ Len(report[p]) >= anonDone[p]
            /\ anonDone[p] >= 3 => Includes(replaced, p)

\* C4: a report call without reporter id raises the stored count of its post by
\* exactly 1; so after every step the count of a post is, between calls, at
\* least the number of anonymous calls completed for it, and a post with three
\* completed anonymous calls is in the replaced list.
C4_AnonymousReportCounts ==
    [][/\ (rc[1].pc = "set" /\ ~rc[1].provided)
            => Len(report'[rc[1].postId]) = Len(report[rc[1].postId]) + 1
       /\ AnonymousCallsCounted']_vars

\* C4 witness: three anonymous calls on a2, and nothing else, have put a2 in
\* the replaced list.
C4_Witness ==
    /\ rc[1].pc = "idle"
    /\ anonDone["a2"] = 3
    /\ report["a2"] = <<"__anon_1", "__anon_1", "__anon_1">>
    /\ Includes(replaced, "a2")

----------------------------------------------------------------------------
(* The quiz endpoint: C5 .. C10 *)

\* the request has been answered with a quiz
Served == q[1].pc = "done" /\ q[1].resp.status = 200

\* the rotation-mode request has been answered
RotationDone == q[1].pc = "done" /\ q[1].rotation

Distinct(seq) == \A i, j \in DOMAIN seq : i # j => seq[i] # seq[j]

ServedQuizWellFormed ==
    Served =>
        /\ Distinct(q[1].resp.quiz)
        /\ Len(q[1].resp.quiz) = Len(q[1].quizData)
        /\ \A i \in DOMAIN q[1].quizData :
               ~Includes(replaced, q[1].quizData[i])
                   => q[1].resp.quiz[i] = q[1].quizData[i]

\* C6: every question substituted is outside the replaced list and differs
\* from every question of the quiz at that moment, and takes the place of the
\* flagged question; the quiz served has pairwise distinct post ids, the length
\* of the stored quiz, and every question that is not flagged at its position.
C6_SubstitutionKeepsQuizWellFormed ==
    [][/\ Len(q'[1].subs) > Len(q[1].subs) =>
            LET new == q'[1].subs[Len(q'[1].subs)]
            IN  /\ ~Includes(replaced, new)
                /\ ~Includes(q[1].quizOut, new)
                /\ Includes(replaced, q[1].quizOut[q[1].j])
                /\ q'[1].quizOut = [q[1].quizOut EXCEPT ![q[1].j] = new]
       /\ ServedQuizWellFormed']_vars

\* C6 witness: a quiz served after two substitutions in the same request.
C6_Witness == Served /\ Len(q[1].subs) = 2

\* C7: a request in which a flagged question could not be replaced, for lack of
\* a qualifying post or because the replacement fetch threw, ends in a success
\* response.
C7_ReplacementFailureStillServes ==
    (q[1].pc = "done" /\ (q[1].replThrew \/ q[1].noRepl # {}))
        => q[1].resp.status = 200

\* C8: in rotation mode every candidate given up is in the skip list, and when
\* a candidate after one given up had a cached quiz or a fetch of five
\* questions the request ends in a success response.
C8_RotationFallbackServes ==
    RotationDone =>
        /\ \A c \in Range(q[1].failed) : Includes(skip, c)
        /\ (\E a, b \in DOMAIN q[1].candidates :
                /\ a < b
                /\ Includes(q[1].failed, q[1].candidates[a])
                /\ Includes(q[1].yielded, q[1].candidates[b]))
           => q[1].resp.status = 200

\* C9: in rotation mode the candidates are the rotation order without the skip
\* list of the request's start, they are looked up in that order, and the
\* community served is the first of them with a cached quiz or a fetch of five
\* questions.
C9_FirstYieldingCandidateServed ==
    RotationDone =>
        /\ q[1].candidates =
               SelectSeq(q[1].order, LAMBDA c : ~Includes(q[1].skip0, c))
        /\ q[1].tried = SubSeq(q[1].candidates, 1, Len(q[1].tried))
        /\ q[1].resp.status = 200 => q[1].resp.subreddit = q[1].yielded[1]

\* C10: a rotation-mode request whose candidates are exhausted, none being left
\* by the skip list or every one given up, is answered 503 with type
\* UNKNOWN_ERROR and retryable = true.
C10_ExhaustedRotationIsRetryable ==
    (RotationDone /\ q[1].i = Len(q[1].order)
                  /\ Len(q[1].failed) = Len(q[1].candidates))
        => /\ q[1].resp.status = 503
           /\ q[1].resp.type = "UNKNOWN_ERROR"
           /\ q[1].resp.retryable = TRUE

\* C10 witness: every community was given up by an earlier request, and the
\* request finds no candidate.
C10_Witness ==
    /\ RotationDone
    /\ q[1].skip0 # <<>>
    /\ q[1].candidates = <<>>
    /\ q[1].resp.status = 503

----------------------------------------------------------------------------
(* The quiz endpoint, errors of the content source: C11, C13, C14 *)

\* the request has been answered with an error after its last fetchQuizData
\* failed, every replacement lookup and store call before having succeeded
FetchFailureAnswered ==
    /\ q[1].pc = "done"
    /\ q[1].resp.status # 200
    /\ q[1].fetchKind \in {"threw", "none", "few"}
    /\ ~q[1].replThrew
    /\ ~q[1].storeFailed

\* C11: in rotation mode a failure of the fetch for a candidate, rate-limit and
\* network failures included, gives an error response only when no candidate
\* is left untried.
C11_RotationFetchFailureRecovered ==
    (FetchFailureAnswered /\ q[1].rotation)
        => Len(q[1].tried) = Len(q[1].candidates)

\* C13: in explicit mode, when the content source yields fewer than 5
\* qualifying questions the response is an error of type INSUFFICIENT_DATA,
\* retryable, with the suggestion to select a different subreddit.
C13_ExplicitTooFewIsInsufficientData ==
    (FetchFailureAnswered /\ ~q[1].rotation /\ q[1].fetchKind = "few")
        => /\ q[1].resp.type = "INSUFFICIENT_DATA"
           /\ q[1].resp.retryable = TRUE
           /\ q[1].resp.suggestion = TryDifferent

\* C14: in explicit mode, a fetch that fails with an error of the
\* not-found/forbidden class is answered with type SUBREDDIT_NOT_FOUND.
C14_ExplicitUnavailableIsNotFound ==
    (FetchFailureAnswered /\ ~q[1].rotation /\ q[1].fetchKind = "threw"
                          /\ IsUnavailable(q[1].resp.message))
        => q[1].resp.type = "SUBREDDIT_NOT_FOUND"

----------------------------------------------------------------------------
(* The quiz endpoint in explicit mode: C12 *)

\* the request is past the resolution of its subreddit, in explicit mode
ExplicitRequest(rec) == rec.pc \notin {"idle", "meta"} /\ ~rec.rotation

\* C12: a request in explicit mode, its subreddit given in the request or
\* resolved from the metadata of its post, never writes the skip list and looks
\* up and fetches no subreddit but its own; when its fetch fails it is answered
\* with an error.
C12_ExplicitModeTouchesOnlyItsSubreddit ==
    [][ExplicitRequest(q'[1]) =>
          /\ skip' = skip
          /\ q'[1].candidates \in {<<>>, <<q'[1].subreddit>>}
          /\ Range(q'[1].tried) \subseteq {q'[1].subreddit}
          /\ q'[1].fetched \subseteq {q'[1].subreddit}
          /\ q'[1].resolved =>
                /\ postMeta[q'[1].postId] # <<>>
                /\ q'[1].subreddit = postMeta[q'[1].postId][1].subreddit
          /\ (q'[1].pc = "done" /\ q'[1].fetchKind \in {"threw", "none", "few"})
                => q'[1].resp.status # 200]_vars

\* the request of a published post has been answered with an error after the
\* content source refused its subreddit, and the skip list is as it was
C12_Witness ==
    /\ FetchFailureAnswered
    /\ ExplicitRequest(q[1])
    /\ q[1].resolved
    /\ IsUnavailable(q[1].resp.message)
    /\ q[1].fetched = {q[1].subreddit}
    /\ skip = q[1].skip0

----------------------------------------------------------------------------
(* The daily cache and published posts: C15, C16 *)

\* the cache key of the candidate that a request is at
KeyOf(rec) == getDailyCacheKey(rec.candidates[rec.k], rec.date)

\* C15: a request that misses the cache and whose fetch yields 5 questions is
\* answered with those 5; as long as the entry of a (subreddit, date) has not
\* expired, every later request for it is answered with the identical quiz
\* from the cache, and the content source is called only for a (subreddit,
\* date) that has no quiz yet.
C15_CachedQuizServedAgain ==
    /\ (Served /\ q[1].path = "miss")
          => q[1].resp.quiz = q[1].quizData /\ Len(q[1].resp.quiz) = QUIZ_SIZE
    /\ (Served /\ q[1].path = "hit") => q[1].fetched = {}
    /\ q[1].pc = "fetch"
          => hist.served[KeyOf(q[1])] = {} \/ KeyOf(q[1]) \in hist.lost
    /\ \A key \in CacheKeys \ hist.lost : Cardinality(hist.served[key]) <= 1

\* a second request for a (subreddit, date) has been answered from the cache
\* with the quiz of the first, the content source not called
C15_Witness ==
    /\ Served
    /\ q[1].path = "hit"
    /\ q[1].fetched = {}
    /\ nQuiz >= 2
    /\ KeyOf(q[1]) \notin hist.lost
    /\ hist.served[KeyOf(q[1])] = {q[1].resp.quiz}
    /\ cache[KeyOf(q[1])] = q[1].resp.quiz

\* C16: every successful request carrying the id of a post whose metadata
\* exists, and still exists at the response, is answered with the quiz that
\* the first such request was answered with.
C16_PostReloadsOriginalQuiz ==
    (Served /\ q[1].resolved /\ postMeta[q[1].postId] # <<>>)
        => <<q[1].resp.quiz>> = hist.first[q[1].postId]

----------------------------------------------------------------------------
(* Overlapping quiz requests: C17, C18 *)

\* request s has been answered with a quiz
ServedTo(s) == q[s].pc = "done" /\ q[s].resp.status = 200

\* the complete quizzes that the content source yields for subreddit c
CompleteQuizzes(c) ==
    {fetchQuizData(a).quiz : a \in {b \in ChangingAnswers(c) : fetchQuizData(b).ok}}

\* C17: all successful responses for the same subreddit and date carry the
\* same five questions, whatever the interleaving of the requests.
C17_SameQuizForAllUsers ==
    \A key \in CacheKeys : Cardinality(hist.served[key]) <= 1

\* C18: when overlapping requests for the same (subreddit, date) both miss,
\* fetch and write, each write stores the complete quiz of its writer, so that
\* the value stored is the quiz of the last writer and never a mixture, and
\* each response is a 5-question quiz of the content source.
C18_LastWriteWins ==
    [][/\ \A s \in QuizSlots :
            (q[s].pc = "cacheSet" /\ q'[s].pc # "cacheSet")
                => cache' = [cache EXCEPT ![KeyOf(q[s])] = q[s].quizData]
       /\ \A key \in CacheKeys :
            cache'[key] = None \/ cache'[key] \in CompleteQuizzes(key[1])
       /\ \A s \in QuizSlots :
            (q'[s].pc = "done" /\ q'[s].resp.status = 200)
                => /\ Len(q'[s].resp.quiz) = QUIZ_SIZE
                   /\ q'[s].resp.quiz = q'[s].quizData
                   /\ q'[s].resp.quiz
                        \in CompleteQuizzes(q'[s].candidates[q'[s].k])]_vars

\* two requests for the same (subreddit, date) both missed, fetched different
\* quizzes and were answered; the stored quiz is that of the second
C18_Witness ==
    /\ ServedTo(1) /\ ServedTo(2)
    /\ q[1].path = "miss" /\ q[2].path = "miss"
    /\ KeyOf(q[1]) = KeyOf(q[2])
    /\ q[1].quizData # q[2].quizData
    /\ cache[KeyOf(q[2])] = q[2].quizData

----------------------------------------------------------------------------
(* Failures of the key-value store: C19, C20 *)

\* the request has been answered after its cache write failed, every other
\* store call having succeeded
WriteFailureAnswered ==
    /\ q[1].pc = "done"
    /\ q[1].writeFailed
    /\ ~q[1].storeFailed

\* C19: when the write of the quiz cache fails after a successful fetch, the
\* request is answered with success and the 5 fetched questions, and nothing
\* is stored.
C19_CacheWriteFailureSwallowed ==
    [][/\ (q[1].pc = "cacheSet" /\ q'[1].writeFailed)
            => /\ q'[1] = [q[1] EXCEPT !.pc = "replaced", !.writeFailed = TRUE]
               /\ cache' = cache
       /\ WriteFailureAnswered'
            => /\ q'[1].resp.status = 200
               /\ q'[1].resp.quiz = q'[1].quizData
               /\ Len(q'[1].resp.quiz) = QUIZ_SIZE
               /\ q'[1].fetchKind = "five"]_vars

\* a request answered with its five fetched questions although the write of
\* the quiz cache failed: nothing is cached under its key
C19_Witness ==
    /\ WriteFailureAnswered
    /\ q[1].resp.status = 200
    /\ Len(q[1].resp.quiz) = QUIZ_SIZE
    /\ cache[KeyOf(q[1])] = None

\* C20: a request during which a call of the key-value store failed, and
\* whose fetches all succeeded, is answered with a quiz.
C20_StoreFailureNeverFailsRequest ==
    (q[1].pc = "done" /\ q[1].storeFailed /\ q[1].fetchKind \in {"", "five"})
        => q[1].resp.status = 200

----------------------------------------------------------------------------
(* The size of a quiz: C21 *)

\* C21: every success response carries exactly 5 questions and every value
\* stored under a quiz cache key is a list of exactly 5 questions, whether the
\* quiz came from the cache or from a fetch, substitutions included.
C21_QuizzesHaveFiveQuestions ==
    /\ Served => Len(q[1].resp.quiz) = QUIZ_SIZE
    /\ \A key \in CacheKeys : cache[key] = None \/ Len(cache[key]) = QUIZ_SIZE

\* a quiz of 5 questions served from the cache after a substitution, the
\* stored quiz still holding the 5 questions fetched
C21_Witness ==
    /\ Served
    /\ q[1].path = "hit"
    /\ Len(q[1].subs) > 0
    /\ Len(q[1].resp.quiz) = QUIZ_SIZE
    /\ q[1].resp.quiz # cache[KeyOf(q[1])]
    /\ Len(cache[KeyOf(q[1])]) = QUIZ_SIZE

----------------------------------------------------------------------------
(* The content filter and ranker: C22 .. C26 *)

\* every comment of a comment tree, replies included
RECURSIVE TreeComments(_)
TreeComments(forest) ==
    IF forest = <<>> THEN <<>>
    ELSE <<Head(forest)>> \o TreeComments(Head(forest).replies)
                          \o TreeComments(Tail(forest))

\* the surviving comments of the whole comment tree of a post, highest
\* upvote count first
SurvivingComments(src) ==
    LET all == SelectSeq(TreeComments(src.comments), Survives)
    IN  SortByUps([i \in 1..Len(all) |-> Transformed(all[i])])

\* the post has at least 3 surviving comments and one of them has strictly
\* more upvotes than every other
StrictWinner(src) ==
    /\ Len(SurvivingComments(src)) >= 3
    /\ SurvivingComments(src)[1].ups > SurvivingComments(src)[2].ups

\* a rule of the post filter rejects the post
Disqualified(src) ==
    \/ src.title \in {<<>>, <<"">>, <<"[deleted]">>, <<"[removed]">>}
    \/ <<TRUE>> \in {src.over_18, src.over18, src.nsfw}
    \/ src.stickied = <<TRUE>>
    \/ src.distinguished \in {<<"moderator">>, <<"admin">>}
    \/ src.locked = <<TRUE>>
    \/ src.crosspost_parent \notin {<<>>, <<"">>}
    \/ src.crosspostParent \notin {<<>>, <<"">>}
    \/ <<TRUE>> \in {src.is_crosspost, src.isCrosspost}
    \/ src.crosspost_parent_list \notin {<<>>, << <<>> >>}
    \/ src.crosspostParentList \notin {<<>>, << <<>> >>}

\* the posts of the listing that qualify as questions
Qualifying ==
    {i \in 1..Len(sel.listing) :
        /\ ~Disqualified(sel.listing[i])
        /\ ~sel.listing[i].commentsFail
        /\ StrictWinner(sel.listing[i])}

Ups(comments) == [i \in 1..Len(comments) |-> comments[i].ups]

\* C22: every question returned comes from a post with at least 3 surviving
\* comments and a strict winner: at most 5 questions, 3 comments each, the
\* first with more upvotes than the second, and no question from a post with
\* fewer than 3 surviving comments or with two equal highest upvote counts.
C22_QuestionsHaveStrictWinner ==
    /\ Len(Output) <= QUIZ_SIZE
    /\ \A n \in 1..Len(Output) :
         /\ Len(Output[n].comments) = 3
         /\ Output[n].comments[1].ups > Output[n].comments[2].ups
         /\ StrictWinner(SourceOf(sel.listing, Output[n].postId))

\* C23: the three comments of every question returned are the three
\* highest-upvoted surviving comments of the whole comment tree of its post,
\* highest first, and exactly one of them has the highest upvote count.
C23_ThreeHighestOfWholeTree ==
    \A n \in 1..Len(Output) :
        /\ Ups(Output[n].comments)
             = Ups(Slice(SurvivingComments(SourceOf(sel.listing, Output[n].postId)),
                         TOP_COMMENTS))
        /\ Output[n].comments[1].ups > Output[n].comments[2].ups

\* C24: no question returned by fetchQuizData or getReplacementQuestion comes
\* from a post that a rule of the post filter rejects.
C24_NoDisqualifiedPostInOutput ==
    \A n \in 1..Len(Output) : ~Disqualified(SourceOf(sel.listing, Output[n].postId))

\* a replacement was found in a listing that holds a rejected post, and a
\* quiz would have been made of a listing that holds one
C24_Witness ==
    /\ sel.pc = "done"
    /\ sel.mode = "replacement"
    /\ sel.result = "question"
    /\ sel.excludePostIds = {"f1", "f2"}
    /\ Len(sel.listing) = 6
    /\ Disqualified(sel.listing[1])
    /\ Output[1].postId = "f3"

\* C25: when at most 5 posts of the listing qualify, every post that passes
\* the post filter and has at least 3 surviving comments with a strict top
\* comment is among the questions made.
C25_EveryQualifyingPostAppears ==
    (sel.pc = "done" /\ sel.mode = "quiz" /\ Cardinality(Qualifying) <= QUIZ_SIZE)
        => \A i \in Qualifying :
              \E n \in 1..Len(sel.quizQuestions) :
                  sel.quizQuestions[n].postId = sel.listing[i].id

\* the characters of title, self-text and the three retained comment bodies
ContentLength(src) ==
    Len(Default(src.title, "")) + Len(Default(src.selftext, ""))
        + SumLen(Slice(SurvivingComments(src), TOP_COMMENTS))

\* C26: when more than 5 posts qualify, the quiz is made of 5 qualifying posts
\* in ascending order of content length, and no qualifying post left out is
\* strictly shorter than a post of the quiz.
C26_FiveShortestInAscendingOrder ==
    (sel.pc = "done" /\ sel.mode = "quiz" /\ Cardinality(Qualifying) > QUIZ_SIZE)
        => /\ sel.result = "questions"
           /\ Len(Output) = QUIZ_SIZE
           /\ \A n \in 1..Len(Output) :
                \E i \in Qualifying : sel.listing[i].id = Output[n].postId
           /\ \A n \in 1..(Len(Output) - 1) :
                ContentLength(SourceOf(sel.listing, Output[n].postId))
                    <= ContentLength(SourceOf(sel.listing, Output[n + 1].postId))
           /\ \A i \in Qualifying :
                (\A n \in 1..Len(Output) : Output[n].postId # sel.listing[i].id)
                    => \A n \in 1..Len(Output) :
                          ContentLength(sel.listing[i])
                              >= ContentLength(SourceOf(sel.listing, Output[n].postId))

\* seven posts listed, six of them qualifying and one not: the long post
\* listed first is left out, the short posts listed later are in the quiz
C26_Witness ==
    /\ sel.pc = "done"
    /\ sel.result = "questions"
    /\ Cardinality(Qualifying) = 6
    /\ 1 \in Qualifying
    /\ Len(sel.listing) > Cardinality(Qualifying)
    /\ \A n \in 1..Len(Output) : Output[n].postId # sel.listing[1].id
    /\ ContentLength(sel.listing[1])
         > ContentLength(SourceOf(sel.listing, Output[1].postId))

----------------------------------------------------------------------------
(* The rotation selector: C27, C28 *)

----------------------------------------------------------------------------
(* The admin endpoints: C29, C30 *)

\* the key of the request is absent or differs from the configured secret,
\* or no secret is configured
Unauthorized(request) ==
    /\ request.pc # "idle"
    /\ \/ adminSecret \in {<<>>, <<"">>}
       \/ request.key = <<>>
       \/ request.key # adminSecret

\* C29: an admin request whose key is absent or differs from the configured
\* secret, or that arrives when no secret is configured, is answered 401
\* Unauthorized, and no step of it changes anything stored.
C29_UnauthorizedChangesNothing ==
    [][Unauthorized(adm)' =>
          /\ adm'.pc = "done"
          /\ adm'.resp.status = 401
          /\ UNCHANGED <<report, replaced, skip, cache, postMeta>>]_vars

\* with no secret configured, a clear-cache request without a key that names
\* a subreddit whose quiz of today is cached was answered 401
C29_Witness ==
    /\ adm.pc = "done"
    /\ adm.endpoint \in ClearEndpoints
    /\ adminSecret = <<>>
    /\ adm.key = <<>>
    /\ adm.subreddit = <<"funny">>
    /\ adm.resp.status = 401
    /\ cache[<<"funny", today>>] # None

\* C30: after an authorized clear-cache request that names no community was
\* answered with success, no quiz is cached for any community or date.
C30_ClearAllLeavesNoEntry ==
    (/\ adm.pc = "done"
     /\ adm.endpoint \in ClearEndpoints
     /\ adm.subreddit \in {<<>>, <<"">>}
     /\ adm.resp.status = 200)
        => \A key \in CacheKeys : cache[key] = None

----------------------------------------------------------------------------
(* The quiz cache: C31 *)

\* C31: a getCachedQuiz of a key, after a successful cacheQuiz of that key
\* with no later write or delete of the key, returns a quiz equal to the
\* quizData that was written.
C31_CacheRoundTrip ==
    \A key \in CacheKeys :
        (cq.key = <<key>> /\ cq.written[key] # <<>>) => cq.got = cq.written[key]

\* a quiz with and without the optional properties was read back from a key
\* written twice, while another key holds another quiz
C31_Witness ==
    /\ cq.key = <<getDailyCacheKey("funny", <<0>>)>>
    /\ cq.got = <<CachedQuiz(2)>>
    /\ cq.written[getDailyCacheKey("funny", <<0>>)] = cq.got
    /\ cq.written[getDailyCacheKey("funny", <<>>)] = <<CachedQuiz(1)>>
    /\ cache[getDailyCacheKey("funny", <<0>>)] # cache[getDailyCacheKey("funny", <<>>)]

----------------------------------------------------------------------------
(* Requests from a post: C32 *)

\* the metadata of post p exists and parses
HasMetadata(p) == Len(postMeta[p]) = 1

\* C32: when the lookup of a request's post finds metadata that parses, the
\* quiz endpoint goes on with the metadata's subreddit and date as its only
\* candidate, whatever the query says, and a quiz it serves is the one stored
\* under that subreddit and date; the daily-subreddit endpoint answers with
\* the metadata's subreddit and date and isHistorical = true.  When there is
\* no metadata or it does not parse, the quiz endpoint goes on with the
\* query's subreddit and date, or today's rotation, and the daily-subreddit
\* endpoint answers today's subreddit and date with isHistorical = false.
C32_PostMetadataFirst ==
    [][/\ (q[1].pc = "meta" /\ q'[1].pc # "meta") =>
            IF HasMetadata(q[1].postId)
            THEN /\ q'[1].resolved /\ ~q'[1].rotation
                 /\ q'[1].candidates = <<postMeta[q[1].postId][1].subreddit>>
                 /\ q'[1].date = <<postMeta[q[1].postId][1].date>>
            ELSE /\ ~q'[1].resolved
                 /\ q'[1].date = q[1].date
                 /\ IF q[1].subreddit \in {None, ""}
                    THEN /\ q'[1].rotation
                         /\ q'[1].order = getSubredditsInRotationOrder(today)
                    ELSE q'[1].candidates = <<q[1].subreddit>>
       /\ (ds.pc = "meta" /\ ds'.pc = "done") =>
            ds'.resp = IF HasMetadata(ds.postId)
                       THEN <<[subreddit |-> postMeta[ds.postId][1].subreddit,
                               date |-> postMeta[ds.postId][1].date,
                               isHistorical |-> TRUE]>>
                       ELSE <<[subreddit |-> getDailySubreddit(TEST_SUBREDDIT, today),
                               date |-> today, isHistorical |-> FALSE]>>
       /\ (q'[1].pc = "done" /\ q'[1].resp.status = 200 /\ q'[1].resolved) =>
            /\ Len(q'[1].tried) = 1
            /\ q'[1].resp.quiz = cache'[<<q'[1].subreddit, q'[1].date[1]>>]
      ]_vars

\* a request from a post published the day before was served the quiz of the
\* post's day, and the daily-subreddit endpoint answered for the same post
C32_Witness ==
    /\ q[1].pc = "done" /\ q[1].resp.status = 200 /\ q[1].resolved
    /\ q[1].postId = "p1"
    /\ HasMetadata("p1")
    /\ postMeta["p1"][1].date # today
    /\ ds.pc = "done" /\ ds.postId = "p1"
    /\ ds.resp[1].isHistorical
    /\ ds.resp[1].subreddit # getDailySubreddit(TEST_SUBREDDIT, today)

----------------------------------------------------------------------------
(* Expiration: C33 *)

----------------------------------------------------------------------------
(* The skip list under overlapping requests: C34 *)

\* C34: a subreddit in the skip list is in it in every later state, whatever
\* the interleaving of the rotation-mode requests that add subreddits, and
\* the list never holds a subreddit twice.
C34_SkipListOnlyGrows ==
    [][/\ \A c \in Range(skip) : c \in Range(skip')
       /\ Distinct(skip')
      ]_vars

----------------------------------------------------------------------------
(* The report tracker under overlapping requests: C35, C36 *)

\* C35: the number of reporter ids stored for a post never decreases, and
\* whenever no report call is running it is the number of distinct named
\* reporters whose calls for the post have completed.
C35_NoReportLost ==
    [][/\ \A p \in AllPostIds : Len(report'[p]) >= Len(report[p])
       /\ (\A s \in ReportSlots : rc'[s].pc = "idle") =>
              \A p \in AllPostIds : Len(report'[p]) = Cardinality(reporters'[p])
      ]_vars

\* C36: every post id in the replaced list has a stored report record of at
\* least REPORT_THRESHOLD reporter ids, in every state of overlapping report
\* calls.
C36_ReplacedPostsReachedThreshold ==
    \A i \in 1..Len(replaced) : Len(report[replaced[i]]) >= REPORT_THRESHOLD

----------------------------------------------------------------------------
(* Substitution and the quiz cache: C37 *)

\* the posts of the quiz stored under a key that are in the replaced list
FlaggedStored(key) ==
    IF cache[key] = None THEN {}
    ELSE {i \in DOMAIN cache[key] : Includes(replaced, cache[key][i])}

----------------------------------------------------------------------------
(* Publishing posts: C38, C39 *)

\* C38: the subreddit createPost writes into a post's metadata is not in the
\* skip list at the time of the write.
C38_PublishedSubredditNotSkipped ==
    [][\A p \in PostIds :
          (postMeta'[p] # postMeta[p] /\ postMeta'[p] # <<>>) =>
              ~Includes(skip', postMeta'[p][1].subreddit)
      ]_vars

\* C39: reddit.submitCustomPost has been called at most once for every date.
C39_OnePostPerDate ==
    \A d \in DailyDates :
        Cardinality({i \in 1..Len(submitted) : submitted[i].today = d}) <= 1

----------------------------------------------------------------------------
(* The end of a quiz request: C40 *)

\* the candidates are looked up in order, each at most once, and a candidate
\* given up is not fetched again
CandidatesTriedOnce ==
    /\ Distinct(q[1].tried)
    /\ Len(q[1].tried) <= Len(Approved)
    /\ q[1].tried = SubSeq(q[1].candidates, 1, Len(q[1].tried))
    /\ Distinct(q[1].failed)
    /\ q[1].pc \in {"cache", "fetch"} => ~Includes(q[1].failed, q[1].candidates[q[1].k])

====
